---- MODULE Spec2Model ----
(***************************************************************************)
(* Model of the framegraph core of matt328/skeleton: the frame ring, the   *)
(* alias registry, the barrier plan compiler and the graph executor, as    *)
(* driven by render_thread.                                                *)
(***************************************************************************)
EXTENDS Integers, Sequences, FiniteSets, TLC

(***************************************************************************)
(* Bounds of the model.                                                    *)
(***************************************************************************)
\* largest ring (number of frame slots) explored by SpecRing
MaxSlots == 3
\* number of presentation images the swapchain hands out
NumSwapImages == 2

(***************************************************************************)
(* Program constants.                                                      *)
(***************************************************************************)
\* render_thread: `for _ in 0..10`
FrameLoopCount == 10
\* render_thread: the frames vector holds two Frame values
RingSlots == 2
\* render_thread: ImageResolveContext.frame_count
FrameCount == 2

\* render_thread: Frame::new is given pass_count 2 (secondary command buffers)
SecondaryCount == 2

\* largest pass list given to the builder
MaxPasses == 2
\* largest number of declare_image calls made on one registry by SpecAlias
MaxCalls == 3
\* largest number of entries of the images arena explored by SpecImages
MaxImages == 3
\* largest frame_count, and largest number of external images, given to the
\* image manager by SpecImages
MaxReplicas == 2
MaxRenderFrames == 4
\* the asset ids of the gameplay thread are counted 1..MaxAssets and start
\* again at 1
MaxAssets == 3

VARIABLES
    frames,      \* FrameRing.frames: sequence of Frame records (slot i is frames[i+1])
    ringIndex,   \* FrameRing.index (0-based cursor)
    ringNumber,  \* FrameRing.number
    inFlight,    \* GPU side: submissions not yet completed, [slot, number]
    pc,          \* position of the render thread
    curSlot,     \* the slot returned by the last acquire (0-based)
    presented,   \* history: the frames handed to presentation, in order
    passes,      \* FramegraphBuilder.render_passes, then FrameGraph.render_passes
    im,          \* the ImageManager
    swapKeys,    \* the keys register_external_per_frame returned for the swapchain
    aliasReg,    \* the AliasRegistry of the build
    resolved,    \* FrameGraph.registry (ResolvedRegistry)
    plan,        \* FrameGraph.barrier_plan.image_barrier_descs
    buildStatus, \* result of FramegraphBuilder::build
    seen,        \* FrameGraph.graph_first_use.seen
    log,         \* history: the transitions emitted by the last execute
    imgState,    \* history: the state each physical image was last moved to
    firstOld,    \* history: old_state of the first transition of each instance
    events,      \* history: what the current frame has recorded and issued, in order
    calls,       \* history: the declare_image calls made on aliasReg, with their results
    lastResolve, \* history: the last resolve_image call on im, with its result
    engine,      \* the Engine: EngineControl.phase, the threads' positions, the channels
    surface      \* environment: the presentation surface and its current extent

ringVars == <<frames, ringIndex, ringNumber, inFlight, pc, curSlot, presented>>

buildVars == <<passes, im, swapKeys, aliasReg, resolved, plan, buildStatus>>

execVars == <<seen, log, imgState, firstOld, events>>

vars == <<ringVars, buildVars, execVars, calls, lastResolve, engine, surface>>

(***************************************************************************)
(* Engine (engine.rs) and EngineControl (messages.rs)                      *)
(***************************************************************************)
\* ShutdownPhase as u8
ShutdownPhase == <<"Running", "StopGameplay", "StopUpload", "StopRender">>

\* the discriminant of a phase
PhaseRank(p) == CHOOSE i \in 1..Len(ShutdownPhase) : ShutdownPhase[i] = p

\* Engine::new: EngineControl::new gives Running, the three threads and the
\* watchdog are spawned, the channels are empty; main is the thread that
\* owns the Engine (the event loop of App). next_asset and asset are the
\* locals of gameplay_thread, got the asset_id of the last completion it
\* received, upload_q and complete_q the asset ids in the two channels
EngineNew ==
    [phase |-> "Running",
     main |-> "event_loop",
     gameplay |-> "check",
     upload |-> "check",
     in_flight |-> 0,
     render |-> "loop",
     iterations |-> 0,
     next_asset |-> 1,
     asset |-> 0,
     got |-> 0,
     upload_q |-> <<>>,
     complete_q |-> <<>>,
     errors |-> <<>>,
     logged |-> <<>>]

\* the surface as SwapchainContext::new found it: its extent is the
\* swapchain_extent render_thread puts into the ImageResolveContext
SurfaceNew == [extent |-> "SwapchainExtent"]

(***************************************************************************)
(* ImageState (render/framegraph/layouts.rs) and the tracked baselines of  *)
(* initial_states (render/framegraph/barrier.rs)                           *)
(***************************************************************************)
ImageAlias == {"SwapchainImage", "ForwardColor", "DepthBuffer"}

MkState(l, s, a) == [layout |-> l, stage |-> s, access |-> a]

\* ImageState::UNDEFINED
UNDEFINED == MkState("UNDEFINED", "TOP_OF_PIPE", "NONE")

\* ImageState::COLOR_ATTACHMENT_WRITE
COLOR_ATTACHMENT_WRITE ==
    MkState("COLOR_ATTACHMENT_OPTIMAL", "COLOR_ATTACHMENT_OUTPUT", "COLOR_ATTACHMENT_WRITE")

\* ImageState::PRESENT
PRESENT == MkState("PRESENT_SRC_KHR", "COLOR_ATTACHMENT_OUTPUT", "COLOR_ATTACHMENT_WRITE")

\* the usage ForwardPass declares for its depth buffer
DEPTH_ATTACHMENT_WRITE ==
    MkState("DEPTH_ATTACHMENT_OPTIMAL", "EARLY_FRAGMENT_TESTS", "DEPTH_STENCIL_ATTACHMENT_WRITE")

\* a sampling state, as a requirement that reads a colour target asks for
SHADER_READ == MkState("SHADER_READ_ONLY_OPTIMAL", "FRAGMENT_SHADER", "SHADER_READ")

\* initial_states, the arm of ImageAlias::SwapchainImage
PresentBaseline == MkState("PRESENT_SRC_KHR", "BOTTOM_OF_PIPE", "NONE")

\* initial_states, the default arm; also build_barrier_desc's None arm
UndefinedBaseline == MkState("UNDEFINED", "NONE", "NONE")

(***************************************************************************)
(* ImageDesc, ImageRequirement and the passes                              *)
(***************************************************************************)
NoDesc == "NoDesc"

\* ImageSize::SwapchainRelative { scale: 1.0 } and ImageSize::Relative(alias, 1.0)
SizeSwapchainRelative == [kind |-> "SwapchainRelative", alias |-> "NoAlias"]
SizeRelative(alias) == [kind |-> "Relative", alias |-> alias]

\* the description ForwardPass::default declares for DepthBuffer
DepthDesc ==
    [format |-> "Depth", size |-> SizeSwapchainRelative, usage |-> "DEPTH_STENCIL_ATTACHMENT",
     lifetime |-> "PerFrame", samples |-> "TYPE_1"]

\* a per-frame colour target
ColorDesc ==
    [format |-> "SwapchainColor", size |-> SizeSwapchainRelative, usage |-> "COLOR_ATTACHMENT",
     lifetime |-> "PerFrame", samples |-> "TYPE_1"]

\* the same colour target described with Global lifetime
GlobalColorDesc == [ColorDesc EXCEPT !.lifetime = "Global"]

\* a per-frame colour target sized relative to the alias `alias`
RelativeDesc(alias) == [ColorDesc EXCEPT !.size = SizeRelative(alias)]

Declare(desc) == [kind |-> "Declare", desc |-> desc]
UseExisting == [kind |-> "UseExisting", desc |-> NoDesc]

\* ImageRequirement { access: ImageAccess { alias, usage { state, aspects }, indexing }, creation }
Req(alias, state, aspects, indexing, creation) ==
    [alias |-> alias, state |-> state, aspects |-> aspects,
     indexing |-> indexing, creation |-> creation]

ReqSwapchainWrite ==
    Req("SwapchainImage", COLOR_ATTACHMENT_WRITE, "COLOR", "Swapchain", UseExisting)
ReqForwardColorUse ==
    Req("ForwardColor", COLOR_ATTACHMENT_WRITE, "COLOR", "Frame", UseExisting)
ReqDepthDeclare ==
    Req("DepthBuffer", DEPTH_ATTACHMENT_WRITE, "DEPTH", "Frame", Declare(DepthDesc))
ReqColorDeclare ==
    Req("ForwardColor", COLOR_ATTACHMENT_WRITE, "COLOR", "Frame", Declare(ColorDesc))
ReqColorRead ==
    Req("ForwardColor", SHADER_READ, "COLOR", "Frame", UseExisting)
ReqColorDeclareGlobal ==
    Req("ForwardColor", COLOR_ATTACHMENT_WRITE, "COLOR", "Global", Declare(GlobalColorDesc))
\* an ImageRequirement reading ForwardColor with
\* ImageIndexing::PerFrame(FrameIndexKind::Swapchain)
ReqColorReadBySwapchain ==
    Req("ForwardColor", SHADER_READ, "COLOR", "Swapchain", UseExisting)

\* ForwardPass::default().image_requirements
ForwardDefaultReqs == <<ReqDepthDeclare, ReqSwapchainWrite>>

\* CompositionPass::default().image_requirements
CompositionDefaultReqs == <<ReqSwapchainWrite, ReqForwardColorUse>>

Pass(kind, reqs) == [kind |-> kind, reqs |-> reqs]

\* the pass values add_pass is given: the two defaults of render_thread and
\* passes of the same two kinds carrying other requirement lists
PassUniverse ==
    { Pass("ForwardPass", ForwardDefaultReqs),
      Pass("CompositionPass", CompositionDefaultReqs),
      Pass("ForwardPass", <<ReqColorDeclare>>),
      Pass("ForwardPass", <<ReqColorDeclare, ReqSwapchainWrite>>),
      Pass("CompositionPass", <<ReqColorRead, ReqSwapchainWrite>>),
      Pass("CompositionPass", <<ReqColorDeclareGlobal>>) }

\* RenderPass::id: ForwardPass::id returns 1 and CompositionPass::id returns 1
PassId(pass) ==
    CASE pass.kind = "ForwardPass" -> 1
      [] pass.kind = "CompositionPass" -> 1

\* RenderPass::image_precursors: one precursor per requirement, in order
ImagePrecursors(pass) == pass.reqs

(***************************************************************************)
(* ImageManager (image/manager.rs): arenas of images and views; a key is   *)
(* the position of its entry and is never handed out twice                 *)
(***************************************************************************)
GlobalKey(k) == [kind |-> "Global", key |-> k]
PerFrameKey(k) == [kind |-> "PerFrame", key |-> k]

ImEmpty == [images |-> <<>>, logical |-> <<>>, views |-> <<>>, logicalViews |-> <<>>]

\* the keys lo+1 .. lo+n, in order
KeyRange(lo, n) == [i \in 1..n |-> lo + i]

\* Image { vk_image, owned: Some(OwnedImageInfo { allocation, _spec }) }: an
\* entry of the images arena; `alive` is its presence in the arena and
\* `destroyed` counts the destroy_image calls made on it
OwnedImage(spec) == [owned |-> TRUE, alive |-> TRUE, extent |-> spec.extent, destroyed |-> 0]

\* Image { vk_image, owned: None }
ExternalImage == [owned |-> FALSE, alive |-> TRUE, extent |-> "External", destroyed |-> 0]

\* ImageView entries of the image_views arena, owned and external
OwnedView(image) == [owned |-> TRUE, alive |-> TRUE, image |-> image, destroyed |-> 0]
ExternalView(image) == [owned |-> FALSE, alive |-> TRUE, image |-> image, destroyed |-> 0]

\* ImageManager::register_external_per_frame for n presentation images
ImRegisterExternal(m, n) ==
    LET imgKeys == KeyRange(Len(m.images), n)
        viewKeys == KeyRange(Len(m.views), n)
        m2 == [images |-> m.images \o [i \in 1..n |-> ExternalImage],
               views |-> m.views \o [i \in 1..n |-> ExternalView(imgKeys[i])],
               logical |-> Append(m.logical, imgKeys),
               logicalViews |-> Append(m.logicalViews, viewKeys)]
    IN [im |-> m2,
        image |-> PerFrameKey(Len(m2.logical)),
        view |-> PerFrameKey(Len(m2.logicalViews))]

\* ImageManager::create_image
ImCreateImage(m, spec, frame_count) ==
    IF spec.lifetime = "Global"
    THEN LET m2 == [m EXCEPT !.images = Append(@, OwnedImage(spec))]
         IN [im |-> m2, key |-> GlobalKey(Len(m2.images))]
    ELSE LET keys == KeyRange(Len(m.images), frame_count)
             m2 == [m EXCEPT
                      !.images = @ \o [i \in 1..frame_count |-> OwnedImage(spec)],
                      !.logical = Append(@, keys)]
         IN [im |-> m2, key |-> PerFrameKey(Len(m2.logical))]

\* ImageManager::create_image returning the error of allocator.create_image
\* for replica failAt (0 is the first): the replicas created before it have
\* been inserted into the images arena, and the vector of their keys is
\* dropped with the error
ImCreateImageFail(m, spec, frame_count, failAt) ==
    IF spec.lifetime = "Global" THEN m
    ELSE [m EXCEPT !.images = @ \o [i \in 1..failAt |-> OwnedImage(spec)]]

\* the result of a lookup whose `expect` panics
Panic == <<>>
Found(k) == <<k>>

\* ImageManager::image_global: the key must name a live entry
ImImageGlobal(m, k) ==
    IF k \in 1..Len(m.images) /\ m.images[k].alive THEN Found(k) ELSE Panic

\* FrameIndex::Frame(i) and FrameIndex::Swapchain(i)
FrameIndexFrame(i) == [kind |-> "Frame", i |-> i]
FrameIndexSwapchain(i) == [kind |-> "Swapchain", i |-> i]

\* FrameIndex::raw
Raw(frameIndex) == frameIndex.i

\* an image_per_frame that wraps an index past the end back into the vector
ImImagePerFrameWrap(m, k, frameIndex) ==
    IF k \in 1..Len(m.logical) /\ Len(m.logical[k]) > 0
    THEN ImImageGlobal(m, m.logical[k][(Raw(frameIndex) % Len(m.logical[k])) + 1])
    ELSE Panic

\* ImageManager::image_per_frame
ImImagePerFrame(m, k, frameIndex) ==
    IF k \in 1..Len(m.logical) /\ Raw(frameIndex) + 1 \in 1..Len(m.logical[k])
    THEN ImImageGlobal(m, m.logical[k][Raw(frameIndex) + 1])
    ELSE Panic

\* ImageManager::resolve_image
ImResolveImage(m, ckey, frameIndex) ==
    IF ckey.kind = "Global" THEN ImImageGlobal(m, ckey.key)
    ELSE ImImagePerFrame(m, ckey.key, frameIndex)

\* ImageManager::image_view_global: the key must name a live entry
ImImageViewGlobal(m, k) ==
    IF k \in 1..Len(m.views) /\ m.views[k].alive THEN Found(k) ELSE Panic

\* ImageManager::resolve_image_view, with image_view_per_frame
ImResolveImageView(m, vkey, frameIndex) ==
    IF vkey.kind = "Global" THEN ImImageViewGlobal(m, vkey.key)
    ELSE IF vkey.key \in 1..Len(m.logicalViews)
            /\ Raw(frameIndex) + 1 \in 1..Len(m.logicalViews[vkey.key])
         THEN ImImageViewGlobal(m, m.logicalViews[vkey.key][Raw(frameIndex) + 1])
         ELSE Panic

\* ImageManager::create_image_view for the image key `target`
ImCreateImageView(m, target, frame_count) ==
    IF target.kind = "Global"
    THEN LET m2 == [m EXCEPT !.views = Append(@, OwnedView(target.key))]
         IN [im |-> m2, key |-> GlobalKey(Len(m2.views))]
    ELSE LET keys == KeyRange(Len(m.views), frame_count)
             m2 == [m EXCEPT
                      !.views = @ \o [i \in 1..frame_count |->
                          OwnedView(ImImagePerFrame(m, target.key, FrameIndexFrame(i - 1))[1])],
                      !.logicalViews = Append(@, keys)]
         IN [im |-> m2, key |-> PerFrameKey(Len(m2.logicalViews))]

\* the keys held by the vectors of a logical map
KeysOf(logical) == UNION {{logical[k][i] : i \in 1..Len(logical[k])} : k \in 1..Len(logical)}

\* SlotMap::remove on every key of `keys`, and the destroy call on each
\* removed entry that is owned
RemoveAndDestroy(entries, keys) ==
    [k \in 1..Len(entries) |->
        IF k \in keys /\ entries[k].alive
        THEN [entries[k] EXCEPT !.alive = FALSE,
                                !.destroyed = IF entries[k].owned THEN @ + 1 ELSE @]
        ELSE entries[k]]

\* SlotMap::drain: every vector leaves the map; its key keeps its place and
\* resolves to nothing
Drain(logical) == [k \in 1..Len(logical) |-> <<>>]

\* the destroy call on every owned entry named by `keys`, the entries staying
\* in the arena
DestroyInPlace(entries, keys) ==
    [k \in 1..Len(entries) |->
        IF k \in keys /\ entries[k].owned
        THEN [entries[k] EXCEPT !.destroyed = @ + 1]
        ELSE entries[k]]

\* a cleanup that iterates over the logical maps without draining them and
\* without removing the entries from the arenas
ImCleanupKeepEntries(m) ==
    [m EXCEPT !.images = DestroyInPlace(m.images, KeysOf(m.logical)),
              !.views = DestroyInPlace(m.views, KeysOf(m.logicalViews))]

\* ImageManager::cleanup_per_frames
ImCleanupPerFrames(m) ==
    [images |-> RemoveAndDestroy(m.images, KeysOf(m.logical)),
     views |-> RemoveAndDestroy(m.views, KeysOf(m.logicalViews)),
     logical |-> Drain(m.logical),
     logicalViews |-> Drain(m.logicalViews)]

(***************************************************************************)
(* AliasRegistry (render/framegraph/alias/registry.rs)                     *)
(***************************************************************************)
None == <<>>
Some(v) == <<v>>

\* HashMap::get
Get(map, k) == IF k \in DOMAIN map THEN Some(map[k]) ELSE None

\* HashMap::insert: the new value replaces an old one
Insert(map, k, v) == IF k \in DOMAIN map THEN [map EXCEPT ![k] = v] ELSE map @@ (k :> v)

\* AliasRegistry::default
AliasRegistryDefault == [declared |-> <<>>, externals |-> <<>>]

\* a declare_image that lets the later description win
DeclareImageOverwrite(reg, alias, desc) ==
    [ok |-> TRUE, reg |-> [reg EXCEPT !.declared = Insert(@, alias, desc)]]

\* a declare_image that rejects every alias already declared
DeclareImageNoRepeat(reg, alias, desc) ==
    IF alias \in DOMAIN reg.declared
    THEN [ok |-> FALSE, reg |-> reg]
    ELSE [ok |-> TRUE, reg |-> [reg EXCEPT !.declared = Insert(@, alias, desc)]]

\* AliasRegistry::declare_image: Err on a differing description, Ok and no
\* change on an identical one, insert otherwise
DeclareImage(reg, alias, desc) ==
    IF alias \in DOMAIN reg.declared
    THEN IF reg.declared[alias] # desc
         THEN [ok |-> FALSE, reg |-> reg]
         ELSE [ok |-> TRUE, reg |-> reg]
    ELSE [ok |-> TRUE, reg |-> [reg EXCEPT !.declared = Insert(@, alias, desc)]]

\* AliasRegistry::declare_external_image
DeclareExternalImage(reg, alias, keys) ==
    [reg EXCEPT !.externals = Insert(@, alias, keys)]

\* create_image_spec: the concrete format, extent and lifetime of a description
CreateImageSpec(desc, ctx) ==
    [format |-> CASE desc.format = "SwapchainColor" -> ctx.swapchain_format
                  [] desc.format = "Depth" -> "D32_SFLOAT"
                  [] desc.format = "HDRColor" -> "R16G16B16A16_SFLOAT",
     extent |-> CASE desc.size.kind = "SwapchainRelative" -> ctx.swapchain_extent
                  [] desc.size.kind = "Relative" -> ctx.resolve_alias[desc.size.alias],
     usage |-> desc.usage,
     samples |-> desc.samples,
     lifetime |-> desc.lifetime]

\* the orders in which a HashMap may iterate over the keys S
Orders(S) ==
    {o \in [1..Cardinality(S) -> S] : \A i, j \in 1..Cardinality(S) : i # j => o[i] # o[j]}

\* the loop of resolve over `declared`, visiting the aliases in `order` from
\* position k: create the image, then its view, and record both keys
RECURSIVE ResolveDeclared(_, _, _, _, _)
ResolveDeclared(reg, order, k, ctx, acc) ==
    IF k > Len(order) THEN acc
    ELSE LET alias == order[k]
             spec == CreateImageSpec(reg.declared[alias], ctx)
             img == ImCreateImage(acc.im, spec, ctx.frame_count)
             view == ImCreateImageView(img.im, img.key, ctx.frame_count)
         IN ResolveDeclared(reg, order, k + 1, ctx,
                [im |-> view.im,
                 images |-> Insert(acc.images, alias, img.key),
                 image_views |-> Insert(acc.image_views, alias, view.key)])

\* the inner loop of resolve over one external alias: every element of the
\* vector is inserted under the same alias
RECURSIVE ResolveExternalKeys(_, _, _, _)
ResolveExternalKeys(alias, keys, k, acc) ==
    IF k > Len(keys) THEN acc
    ELSE ResolveExternalKeys(alias, keys, k + 1,
            [acc EXCEPT !.images = Insert(@, alias, keys[k].image),
                        !.image_views = Insert(@, alias, keys[k].view)])

\* the loop of resolve over `externals`
RECURSIVE ResolveExternals(_, _, _)
ResolveExternals(reg, todo, acc) ==
    IF todo = {} THEN acc
    ELSE LET alias == CHOOSE a \in todo : TRUE
         IN ResolveExternals(reg, todo \ {alias},
                ResolveExternalKeys(alias, reg.externals[alias], 1, acc))

\* a resolve that stops after the loop over `declared`
ResolveDeclaredOnly(reg, m, ctx, order) ==
    ResolveDeclared(reg, order, 1, ctx, [im |-> m, images |-> <<>>, image_views |-> <<>>])

\* AliasRegistry::resolve; `order` is the iteration order of `declared`
Resolve(reg, m, ctx, order) ==
    ResolveExternals(reg, DOMAIN reg.externals,
        ResolveDeclared(reg, order, 1, ctx,
            [im |-> m, images |-> <<>>, image_views |-> <<>>]))

(***************************************************************************)
(* BarrierPlan (render/framegraph/barrier.rs)                              *)
(***************************************************************************)
\* an initial_states that gives every alias the undefined baseline
InitialStatesAllUndefined(aliases) == [a \in aliases |-> UndefinedBaseline]

\* initial_states
InitialStates(aliases) ==
    [a \in aliases |-> IF a = "SwapchainImage" THEN PresentBaseline ELSE UndefinedBaseline]

\* build_barrier_desc
BuildBarrierDesc(prev, precursor) ==
    [alias |-> precursor.alias,
     old_state |-> IF prev = None THEN UndefinedBaseline ELSE prev[1],
     new_state |-> precursor.state,
     aspects |-> precursor.aspects,
     indexing |-> precursor.indexing]

\* the precursors of passes[i..], each with the id of its pass, in loop order
RECURSIVE PlanSteps(_, _)
PlanSteps(passList, i) ==
    IF i > Len(passList) THEN <<>>
    ELSE [j \in 1..Len(ImagePrecursors(passList[i])) |->
             [pass |-> i, id |-> PassId(passList[i]), pre |-> ImagePrecursors(passList[i])[j]]]
         \o PlanSteps(passList, i + 1)

\* a loop body that never updates the tracked state
TrackStateStale(image_states, precursor) == image_states

\* the image_states.insert at the end of the loop body of from_passes
TrackState(image_states, precursor) ==
    Insert(image_states, precursor.alias, precursor.state)

\* the two nested loops of from_passes, from step k on
RECURSIVE PlanFold(_, _, _, _)
PlanFold(steps, k, image_states, descs) ==
    IF k > Len(steps) THEN descs
    ELSE LET pre == steps[k].pre
             desc == BuildBarrierDesc(Get(image_states, pre.alias), pre)
             id == steps[k].id
             descs2 == IF id \in DOMAIN descs
                       THEN [descs EXCEPT ![id] = Append(@, desc)]
                       ELSE descs @@ (id :> <<desc>>)
         IN PlanFold(steps, k + 1, TrackState(image_states, pre), descs2)

\* BarrierPlan::from_passes: image_barrier_descs, keyed by pass id
FromPasses(passList, aliases) ==
    PlanFold(PlanSteps(passList, 1), 1, InitialStates(aliases), <<>>)

(***************************************************************************)
(* Frame (render/frame.rs) and FrameRing (render/frame_ring.rs)            *)
(***************************************************************************)

\* Frame::new: the fence is created signaled, swapchain_image_index is 0
FrameNew(pass_count, i) ==
    [index |-> i, fence |-> "signaled", number |-> 0, swapchain_image_index |-> 0,
     secondary_cmds |-> [j \in 1..pass_count |-> j]]

\* FrameRing::new over n frames: index 0, number 0
FrameRingNew(n) == [i \in 1..n |-> FrameNew(SecondaryCount, i - 1)]

\* a wait that does not look at the fence
FrameWaitNoFence(frame) == TRUE

\* Frame::wait: wait_for_fences returns once the fence is signaled
FrameWait(frame) == frame.fence = "signaled"

\* FrameRing::acquire, the fence wait succeeding: stamps the frame number,
\* blocks on the slot's fence, advances the cursor and returns the slot
Acquire ==
    /\ pc = "acquire"
    /\ ringNumber < FrameLoopCount
    /\ FrameWait(frames[ringIndex + 1])
    /\ frames' = [frames EXCEPT ![ringIndex + 1].number = ringNumber]
    /\ ringNumber' = ringNumber + 1
    /\ curSlot' = ringIndex
    /\ ringIndex' = (ringIndex + 1) % Len(frames)
    /\ pc' = "acquire_image"
    /\ UNCHANGED <<engine, surface, calls, lastResolve, inFlight, presented, buildVars, execVars>>

\* FrameRing::acquire, wait_for_fences returning an error: the number has
\* already been stamped and incremented, the cursor is not advanced, and the
\* error leaves render_thread through `?`
AcquireFail ==
    /\ pc = "acquire"
    /\ ringNumber < FrameLoopCount
    /\ frames' = [frames EXCEPT ![ringIndex + 1].number = ringNumber]
    /\ ringNumber' = ringNumber + 1
    /\ pc' = "failed"
    /\ UNCHANGED <<engine, surface, calls, lastResolve, ringIndex, curSlot, inFlight, presented, buildVars, execVars>>

\* FrameRing::destroy: every frame's semaphore and fence are destroyed and
\* the vector is cleared, whatever is in flight
FrameRingDestroy(fs) == <<>>

\* a teardown that does not wait for the device
DeviceNoWait(submissions) == submissions

\* device_wait_idle returning Ok: every submission has completed
DeviceWaitIdle(submissions) == {}

\* the for loop of render_thread has run all its iterations, and the
\* teardown: device_wait_idle, frame_ring.destroy, cleanup_per_frames
LoopExit ==
    /\ pc = "acquire"
    /\ ringNumber = FrameLoopCount
    /\ inFlight' = DeviceWaitIdle(inFlight)
    /\ frames' = FrameRingDestroy(frames)
    /\ im' = ImCleanupPerFrames(im)
    /\ pc' = "done"
    /\ UNCHANGED <<engine, surface, calls, lastResolve, ringIndex, ringNumber, curSlot, presented,
                   passes, swapKeys, aliasReg, resolved, plan, buildStatus, execVars>>

\* device_wait_idle failing in the teardown: the error leaves render_thread
\* before anything is destroyed
LoopExitFail ==
    /\ pc = "acquire"
    /\ ringNumber = FrameLoopCount
    /\ pc' = "failed"
    /\ UNCHANGED <<engine, surface, calls, lastResolve, frames, ringIndex, ringNumber, curSlot, inFlight, presented,
                   buildVars, execVars>>

\* the image submit_frame moves to PRESENT: swapchain.images[swapchain_image_index]
SwapchainImageOf(frame) == im.logical[swapKeys.image.key][frame.swapchain_image_index + 1]

\* a submit_frame that records the transition to PRESENT after queue_submit
SubmitEventsLateTransition ==
    <<[kind |-> "reset_fences", pass |-> 0, alias |-> "none"],
      [kind |-> "queue_submit", pass |-> 0, alias |-> "none"],
      [kind |-> "transition_present", pass |-> 0, alias |-> "none"]>>

\* the calls of submit_frame, in order: the transition to PRESENT recorded
\* into the barrier command buffer, reset_fences, queue_submit
SubmitEvents ==
    <<[kind |-> "transition_present", pass |-> 0, alias |-> "none"], [kind |-> "reset_fences", pass |-> 0, alias |-> "none"],
      [kind |-> "queue_submit", pass |-> 0, alias |-> "none"]>>

\* a submit_frame that hands the fence to queue_submit without resetting it
SubmitFrameNoReset ==
    /\ pc = "submit"
    /\ inFlight' = inFlight \cup {[slot |-> curSlot, number |-> frames[curSlot + 1].number]}
    /\ imgState' = Insert(imgState, SwapchainImageOf(frames[curSlot + 1]), PRESENT)
    /\ pc' = "present"
    /\ events' = events \o SubmitEvents
    /\ UNCHANGED <<engine, surface, calls, lastResolve, frames, ringIndex, ringNumber, curSlot, presented, buildVars,
                   seen, log, firstOld>>

\* submit_frame: the transition of the swapchain image to PRESENT is recorded,
\* then reset_fences and queue_submit with the slot's fence
SubmitFrame ==
    /\ pc = "submit"
    /\ frames' = [frames EXCEPT ![curSlot + 1].fence = "unsignaled"]
    /\ inFlight' = inFlight \cup {[slot |-> curSlot, number |-> frames[curSlot + 1].number]}
    /\ imgState' = Insert(imgState, SwapchainImageOf(frames[curSlot + 1]), PRESENT)
    /\ pc' = "present"
    /\ events' = events \o SubmitEvents
    /\ UNCHANGED <<engine, surface, calls, lastResolve, ringIndex, ringNumber, curSlot, presented, buildVars, seen, log, firstOld>>

\* submit_frame failing: either before reset_fences has run (fence
\* untouched) or in queue_submit, after the fence has been reset
SubmitFrameFail ==
    /\ pc = "submit"
    /\ \E resetDone \in BOOLEAN :
          frames' = [frames EXCEPT ![curSlot + 1].fence =
                        IF resetDone THEN "unsignaled" ELSE @]
    /\ pc' = "failed"
    /\ UNCHANGED <<engine, surface, calls, lastResolve, ringIndex, ringNumber, curSlot, inFlight, presented, buildVars, execVars>>

\* present_frame: queue_present of the frame's swapchain image
PresentFrame ==
    /\ pc = "present"
    /\ presented' = Append(presented,
                        [number |-> frames[curSlot + 1].number, barriers |-> Len(log)])
    /\ events' = Append(events, [kind |-> "queue_present", pass |-> 0, alias |-> "none"])
    /\ pc' = "acquire"
    /\ UNCHANGED <<engine, surface, calls, lastResolve, frames, ringIndex, ringNumber, curSlot, inFlight, buildVars,
                   seen, log, imgState, firstOld>>

\* present_frame failing: the error leaves render_thread
PresentFrameFail ==
    /\ pc = "present"
    /\ pc' = "failed"
    /\ UNCHANGED <<engine, surface, calls, lastResolve, frames, ringIndex, ringNumber, curSlot, inFlight, presented,
                   buildVars, execVars>>

\* the GPU finishes a submission and signals the fence it was submitted with
GpuComplete ==
    /\ \E s \in inFlight :
          /\ inFlight' = inFlight \ {s}
          /\ frames' = IF s.slot + 1 \in DOMAIN frames
                        THEN [frames EXCEPT ![s.slot + 1].fence = "signaled"]
                        ELSE frames
    /\ UNCHANGED <<engine, surface, calls, lastResolve, ringIndex, ringNumber, pc, curSlot, presented, buildVars, execVars>>

(***************************************************************************)
(* FramegraphBuilder (render/framegraph/builder.rs)                        *)
(***************************************************************************)
\* the requirements of passes[i..], in the loop order of compile_resources
RECURSIVE AllRequirements(_, _)
AllRequirements(passList, i) ==
    IF i > Len(passList) THEN <<>>
    ELSE passList[i].reqs \o AllRequirements(passList, i + 1)

\* compile_resources from requirement k on: Declare calls declare_image and
\* stops at its first error, UseExisting registers nothing
RECURSIVE CompileResources(_, _, _)
CompileResources(reqs, k, reg) ==
    IF k > Len(reqs) THEN [ok |-> TRUE, reg |-> reg]
    ELSE IF reqs[k].creation.kind = "Declare"
         THEN LET r == DeclareImage(reg, reqs[k].alias, reqs[k].creation.desc)
              IN IF r.ok THEN CompileResources(reqs, k + 1, r.reg)
                 ELSE [ok |-> FALSE, reg |-> r.reg]
         ELSE CompileResources(reqs, k + 1, reg)

\* render_thread's ImageResolveContext
ImageCtx ==
    [swapchain_extent |-> "SwapchainExtent", swapchain_format |-> "B8G8R8A8_SRGB",
     resolve_alias |-> [a \in ImageAlias |-> "DefaultExtent"],
     frame_count |-> FrameCount]

\* FramegraphBuilder::add_pass
AddPass ==
    /\ pc = "builder"
    /\ Len(passes) < MaxPasses
    /\ \E p \in PassUniverse : passes' = Append(passes, p)
    /\ UNCHANGED <<engine, surface, calls, lastResolve, ringVars, im, swapKeys, aliasReg, resolved, plan, buildStatus, execVars>>

\* FramegraphBuilder::build succeeding: the external swapchain alias, the
\* declarations of the passes, resolve, the barrier plan, FrameGraph::new
BuildOk ==
    /\ pc = "builder"
    /\ LET reg0 == DeclareExternalImage(AliasRegistryDefault, "SwapchainImage", <<swapKeys>>)
           c == CompileResources(AllRequirements(passes, 1), 1, reg0)
       IN /\ c.ok
          /\ \E order \in Orders(DOMAIN c.reg.declared) :
                LET r == Resolve(c.reg, im, ImageCtx, order)
                IN /\ im' = r.im
                   /\ resolved' = [images |-> r.images, image_views |-> r.image_views]
                   /\ plan' = FromPasses(passes, DOMAIN r.images)
          /\ aliasReg' = c.reg
    /\ buildStatus' = "ok"
    /\ seen' = {}
    /\ pc' = "acquire"
    /\ UNCHANGED <<engine, surface, calls, lastResolve, frames, ringIndex, ringNumber, inFlight, curSlot, presented,
                   passes, swapKeys, log, imgState, firstOld, events>>

\* FramegraphBuilder::build failing in compile_resources: the error leaves
\* build before resolve, and render_thread with it
BuildConflict ==
    /\ pc = "builder"
    /\ LET reg0 == DeclareExternalImage(AliasRegistryDefault, "SwapchainImage", <<swapKeys>>)
           c == CompileResources(AllRequirements(passes, 1), 1, reg0)
       IN /\ ~c.ok
          /\ aliasReg' = c.reg
    /\ buildStatus' = "ConflictingDeclaration"
    /\ pc' = "failed"
    /\ UNCHANGED <<engine, surface, calls, lastResolve, frames, ringIndex, ringNumber, inFlight, curSlot, presented,
                   passes, im, swapKeys, resolved, plan, execVars>>

(***************************************************************************)
(* FrameGraph::execute (render/framegraph/graph.rs)                        *)
(***************************************************************************)
\* the PhysicalImageInstance of a transition
Instance(indexing, frame) ==
    CASE indexing = "Frame" -> [kind |-> "Frame", i |-> frame.index]
      [] indexing = "Swapchain" -> [kind |-> "Swapchain", i |-> frame.swapchain_image_index]
      [] indexing = "Global" -> [kind |-> "Global", i |-> 0]

\* the image a transition is recorded for: the match on desc.indexing
ResolveIndexed(m, ckey, indexing, frame) ==
    CASE indexing = "Global" ->
            IF ckey.kind = "Global" THEN ImImageGlobal(m, ckey.key) ELSE Panic
      [] indexing = "Frame" -> ImResolveImage(m, ckey, FrameIndexFrame(frame.index))
      [] indexing = "Swapchain" ->
            ImResolveImage(m, ckey, FrameIndexSwapchain(frame.swapchain_image_index))

\* a first-use test that looks at the composite key alone
IsFirstUseByKey(seenSet, key) == \A k \in seenSet : k.ckey # key.ckey

\* GraphFirstUse::is_first_use: HashSet::insert reports whether the key is new
IsFirstUse(seenSet, key) == key \notin seenSet

\* execute: `if first_use { ImageState::UNDEFINED } else { desc.old_state }`
EffectiveOldState(first_use, desc) ==
    IF first_use THEN UNDEFINED ELSE desc.old_state

\* the body of `for desc in barrier_descs`, for the i-th pass
EmitBarrier(g, m, frame, i, desc, st) ==
    LET ckeyOpt == Get(g.registry.images, desc.alias)
    IN IF ckeyOpt = None THEN [st EXCEPT !.status = "err"]
       ELSE LET ckey == ckeyOpt[1]
                image == ResolveIndexed(m, ckey, desc.indexing, frame)
            IN IF image = Panic THEN [st EXCEPT !.status = "panic"]
               ELSE LET key == [ckey |-> ckey, inst |-> Instance(desc.indexing, frame)]
                        first_use == IsFirstUse(st.seen, key)
                        old_state == EffectiveOldState(first_use, desc)
                        entry == [pass |-> i, alias |-> desc.alias, key |-> key,
                                  image |-> image[1],
                                  prior |-> Get(st.imgState, image[1]),
                                  first |-> first_use,
                                  old |-> old_state, new |-> desc.new_state]
                    IN [st EXCEPT
                          !.seen = @ \cup {key},
                          !.log = Append(@, entry),
                          !.events = Append(@, [kind |-> "barrier", pass |-> i, alias |-> desc.alias]),
                          !.imgState = Insert(@, image[1], desc.new_state),
                          !.firstOld = IF key \in DOMAIN @ THEN @ ELSE @ @@ (key :> old_state)]

RECURSIVE EmitBarriers(_, _, _, _, _, _, _)
EmitBarriers(g, m, frame, i, descs, k, st) ==
    IF k > Len(descs) \/ st.status # "ok" THEN st
    ELSE EmitBarriers(g, m, frame, i, descs, k + 1, EmitBarrier(g, m, frame, i, descs[k], st))

\* a loop over the passes that goes on to the next pass after a failure
RECURSIVE ExecutePassesContinue(_, _, _, _, _, _)
ExecutePassesContinue(g, m, frame, i, failAt, st) ==
    IF i > Len(g.passes) THEN st
    ELSE ExecutePassesContinue(g, m, frame, i + 1, failAt,
            IF failAt = i THEN [st EXCEPT !.status = "err"]
            ELSE [st EXCEPT !.events = Append(@, [kind |-> "pass", pass |-> i, alias |-> "none"])])

\* the plan entries execute looks up for a pass: barrier_plan.get(&pass.id())
PlanGet(descs, pass) ==
    IF PassId(pass) \in DOMAIN descs THEN descs[PassId(pass)] ELSE <<>>

\* the body of `for (i, pass) in render_passes`, from pass i on; failAt is the
\* pass whose execute returns Err (0: none does)
RECURSIVE ExecutePasses(_, _, _, _, _, _)
ExecutePasses(g, m, frame, i, failAt, st) ==
    IF i > Len(g.passes) \/ st.status # "ok" THEN st
    ELSE LET st1 == EmitBarriers(g, m, frame, i, PlanGet(g.plan, g.passes[i]), 1, st)
             st2 == IF st1.status # "ok" THEN st1
                    ELSE IF i > Len(frame.secondary_cmds) THEN [st1 EXCEPT !.status = "panic"]
                    ELSE IF failAt = i THEN [st1 EXCEPT !.status = "err"]
                    ELSE [st1 EXCEPT !.executed = Append(@, i),
                                     !.events = Append(@, [kind |-> "pass", pass |-> i, alias |-> "none"])]
         IN ExecutePasses(g, m, frame, i + 1, failAt, st2)

\* AttachmentResolver::image_view: the view a pass binds for `alias`, taken at
\* the presentation-image index for the swapchain alias and at the frame
\* slot's index for every other alias
AttachmentImageView(registry, m, frame, alias) ==
    LET index == IF alias = "SwapchainImage"
                 THEN FrameIndexSwapchain(frame.swapchain_image_index)
                 ELSE FrameIndexFrame(frame.index)
        vkey == Get(registry.image_views, alias)
    IN IF vkey = None THEN Panic ELSE ImResolveImageView(m, vkey[1], index)

Graph == [passes |-> passes, plan |-> plan, registry |-> resolved]

\* FrameGraph::execute for the acquired frame
FrameGraphExecute ==
    /\ pc = "execute"
    /\ \E failAt \in 0..Len(passes) :
          LET st0 == [seen |-> seen, log |-> <<>>, imgState |-> imgState,
                      firstOld |-> firstOld, executed |-> <<>>, events |-> <<>>,
                      status |-> "ok"]
              st == ExecutePasses(Graph, im, frames[curSlot + 1], 1, failAt, st0)
          IN /\ (failAt # 0 => st.status # "ok")
             /\ seen' = st.seen
             /\ log' = st.log
             /\ imgState' = st.imgState
             /\ firstOld' = st.firstOld
             /\ events' = st.events
             /\ pc' = CASE st.status = "ok" -> "submit"
                        [] st.status = "err" -> "failed"
                        [] st.status = "panic" -> "panicked"
    /\ UNCHANGED <<engine, surface, calls, lastResolve, frames, ringIndex, ringNumber, inFlight, curSlot, presented, buildVars>>

\* SwapchainContext::acquire_next_image, and the store of the index it
\* returned into the frame
AcquireNextImage ==
    /\ pc = "acquire_image"
    /\ \E idx \in 0..(NumSwapImages - 1) :
          frames' = [frames EXCEPT ![curSlot + 1].swapchain_image_index = idx]
    /\ pc' = "execute"
    /\ UNCHANGED <<engine, surface, calls, lastResolve, ringIndex, ringNumber, inFlight, curSlot, presented, buildVars, execVars>>

\* acquire_next_image failing: the error leaves render_thread
AcquireNextImageFail ==
    /\ pc = "acquire_image"
    /\ pc' = "failed"
    /\ UNCHANGED <<engine, surface, calls, lastResolve, frames, ringIndex, ringNumber, inFlight, curSlot, presented,
                   buildVars, execVars>>

(***************************************************************************)
(* Specifications                                                          *)
(***************************************************************************)
\* render_thread before the builder chain: the swapchain images are
\* registered as external and the ring holds RingSlots frames
SwapRegistration == ImRegisterExternal(ImEmpty, NumSwapImages)

Init ==
    /\ frames = FrameRingNew(RingSlots)
    /\ ringIndex = 0
    /\ ringNumber = 0
    /\ inFlight = {}
    /\ pc = "builder"
    /\ curSlot = 0
    /\ presented = <<>>
    /\ passes = <<>>
    /\ im = SwapRegistration.im
    /\ swapKeys = [image |-> SwapRegistration.image, view |-> SwapRegistration.view]
    /\ aliasReg = AliasRegistryDefault
    /\ resolved = [images |-> <<>>, image_views |-> <<>>]
    /\ plan = <<>>
    /\ buildStatus = "none"
    /\ seen = {}
    /\ log = <<>>
    /\ imgState = <<>>
    /\ firstOld = <<>>
    /\ events = <<>>
    /\ calls = <<>>
    /\ lastResolve = <<>>
    /\ engine = EngineNew
    /\ surface = SurfaceNew

FrameLoop ==
    \/ Acquire
    \/ AcquireFail
    \/ LoopExit
    \/ LoopExitFail
    \/ AcquireNextImage
    \/ AcquireNextImageFail
    \/ FrameGraphExecute
    \/ SubmitFrame
    \/ SubmitFrameFail
    \/ PresentFrame
    \/ PresentFrameFail
    \/ GpuComplete

Next ==
    \/ AddPass
    \/ BuildOk
    \/ BuildConflict
    \/ FrameLoop

Spec == Init /\ [][Next]_vars

\* the frame loop on its own, over a ring of any size up to MaxSlots: the
\* builder was given no pass, and build has succeeded
EmptyBuild ==
    Resolve(DeclareExternalImage(AliasRegistryDefault, "SwapchainImage",
                <<[image |-> SwapRegistration.image, view |-> SwapRegistration.view]>>),
            SwapRegistration.im, ImageCtx, <<>>)

InitRing ==
    /\ \E n \in 1..MaxSlots : frames = FrameRingNew(n)
    /\ ringIndex = 0
    /\ ringNumber = 0
    /\ inFlight = {}
    /\ pc = "acquire"
    /\ curSlot = 0
    /\ presented = <<>>
    /\ passes = <<>>
    /\ im = EmptyBuild.im
    /\ swapKeys = [image |-> SwapRegistration.image, view |-> SwapRegistration.view]
    /\ aliasReg = DeclareExternalImage(AliasRegistryDefault, "SwapchainImage", <<swapKeys>>)
    /\ resolved = [images |-> EmptyBuild.images, image_views |-> EmptyBuild.image_views]
    /\ plan = FromPasses(<<>>, DOMAIN EmptyBuild.images)
    /\ buildStatus = "ok"
    /\ seen = {}
    /\ log = <<>>
    /\ imgState = <<>>
    /\ firstOld = <<>>
    /\ events = <<>>
    /\ calls = <<>>
    /\ lastResolve = <<>>
    /\ engine = EngineNew
    /\ surface = SurfaceNew

SpecRing == InitRing /\ [][FrameLoop]_vars

(***************************************************************************)
(* The alias registry on its own: any sequence of up to MaxCalls           *)
(* declarations, the builder's external declaration, then resolve          *)
(***************************************************************************)
\* the descriptions handed to declare_image
DescUniverse ==
    {DepthDesc, ColorDesc, GlobalColorDesc, RelativeDesc("ForwardColor")}

InitAlias ==
    /\ frames = FrameRingNew(RingSlots)
    /\ ringIndex = 0
    /\ ringNumber = 0
    /\ inFlight = {}
    /\ pc = "declaring"
    /\ curSlot = 0
    /\ presented = <<>>
    /\ passes = <<>>
    /\ im = SwapRegistration.im
    /\ swapKeys = [image |-> SwapRegistration.image, view |-> SwapRegistration.view]
    /\ aliasReg = AliasRegistryDefault
    /\ resolved = [images |-> <<>>, image_views |-> <<>>]
    /\ plan = <<>>
    /\ buildStatus = "none"
    /\ seen = {}
    /\ log = <<>>
    /\ imgState = <<>>
    /\ firstOld = <<>>
    /\ events = <<>>
    /\ calls = <<>>
    /\ lastResolve = <<>>
    /\ engine = EngineNew
    /\ surface = SurfaceNew

\* AliasRegistry::declare_image called with any alias and description
AliasDeclareImage ==
    /\ pc = "declaring"
    /\ Len(calls) < MaxCalls
    /\ \E alias \in ImageAlias : \E desc \in DescUniverse :
          LET r == DeclareImage(aliasReg, alias, desc)
          IN /\ aliasReg' = r.reg
             /\ calls' = Append(calls, [alias |-> alias, desc |-> desc, ok |-> r.ok])
    /\ UNCHANGED <<engine, surface, lastResolve, ringVars, passes, im, swapKeys, resolved, plan, buildStatus, execVars>>

\* AliasRegistry::declare_external_image as build calls it for the swapchain
AliasDeclareExternal ==
    /\ pc = "declaring"
    /\ "SwapchainImage" \notin DOMAIN aliasReg.externals
    /\ aliasReg' = DeclareExternalImage(aliasReg, "SwapchainImage", <<swapKeys>>)
    /\ UNCHANGED <<engine, surface, ringVars, passes, im, swapKeys, resolved, plan, buildStatus, execVars,
                   calls, lastResolve>>

\* AliasRegistry::resolve, which consumes the registry
AliasResolve ==
    /\ pc = "declaring"
    /\ \E order \in Orders(DOMAIN aliasReg.declared) :
          LET r == Resolve(aliasReg, im, ImageCtx, order)
          IN /\ im' = r.im
             /\ resolved' = [images |-> r.images, image_views |-> r.image_views]
    /\ pc' = "resolved"
    /\ UNCHANGED <<engine, surface, frames, ringIndex, ringNumber, inFlight, curSlot, presented,
                   passes, swapKeys, aliasReg, plan, buildStatus, execVars, calls, lastResolve>>

NextAlias ==
    \/ AliasDeclareImage
    \/ AliasDeclareExternal
    \/ AliasResolve

SpecAlias == InitAlias /\ [][NextAlias]_vars

(***************************************************************************)
(* External aliases on their own: register_external_per_frame for any      *)
(* number of handles, declare_external_image with the composite pair it    *)
(* returned or with one (image, view) pair per handle, then resolve        *)
(***************************************************************************)
\* CompositeImageKey::External(k.image) / CompositeImageViewKey::External(k.view)
ExternalKey(k) == [kind |-> "External", key |-> k]

\* the Vec<(ImageKey, ImageViewKey)> naming every handle of a registration
HandlePairs(m, keys) ==
    [i \in 1..Len(m.logical[keys.image.key]) |->
        [image |-> ExternalKey(m.logical[keys.image.key][i]),
         view |-> ExternalKey(m.logicalViews[keys.view.key][i])]]

InitExternal ==
    /\ frames = FrameRingNew(RingSlots)
    /\ ringIndex = 0
    /\ ringNumber = 0
    /\ inFlight = {}
    /\ pc = "declaring"
    /\ curSlot = 0
    /\ presented = <<>>
    /\ passes = <<>>
    /\ im = SwapRegistration.im
    /\ swapKeys = [image |-> SwapRegistration.image, view |-> SwapRegistration.view]
    /\ aliasReg = AliasRegistryDefault
    /\ resolved = [images |-> <<>>, image_views |-> <<>>]
    /\ plan = <<>>
    /\ buildStatus = "none"
    /\ seen = {}
    /\ log = <<>>
    /\ imgState = <<>>
    /\ firstOld = <<>>
    /\ events = <<>>
    /\ calls = <<>>
    /\ lastResolve = <<>>
    /\ engine = EngineNew
    /\ surface = SurfaceNew

\* ImageManager::register_external_per_frame for n further handles; the
\* caller keeps the pair of keys it returns
ExtRegister ==
    /\ pc = "declaring"
    /\ \E n \in 1..MaxReplicas :
          /\ Len(im.images) + n <= NumSwapImages + MaxImages
          /\ LET r == ImRegisterExternal(im, n)
             IN /\ im' = r.im
                /\ swapKeys' = [image |-> r.image, view |-> r.view]
    /\ UNCHANGED <<engine, surface, ringVars, passes, aliasReg, resolved, plan, buildStatus,
                   execVars, calls, lastResolve>>

\* AliasRegistry::declare_external_image for any alias, given the composite
\* pair of the last registration
ExtDeclareComposite ==
    /\ pc = "declaring"
    /\ \E alias \in ImageAlias :
          aliasReg' = DeclareExternalImage(aliasReg, alias, <<swapKeys>>)
    /\ UNCHANGED <<engine, surface, ringVars, passes, im, swapKeys, resolved, plan, buildStatus,
                   execVars, calls, lastResolve>>

\* AliasRegistry::declare_external_image for any alias, given one pair per
\* handle of the last registration
ExtDeclareHandles ==
    /\ pc = "declaring"
    /\ \E alias \in ImageAlias :
          aliasReg' = DeclareExternalImage(aliasReg, alias, HandlePairs(im, swapKeys))
    /\ UNCHANGED <<engine, surface, ringVars, passes, im, swapKeys, resolved, plan, buildStatus,
                   execVars, calls, lastResolve>>

NextExternal ==
    \/ ExtRegister
    \/ ExtDeclareComposite
    \/ ExtDeclareHandles
    \/ AliasResolve

SpecExternal == InitExternal /\ [][NextExternal]_vars

(***************************************************************************)
(* The image manager on its own: any sequence of create_image (with its    *)
(* view), register_external_per_frame, resolve_image and                   *)
(* cleanup_per_frames calls                                                *)
(***************************************************************************)
InitImages ==
    /\ frames = FrameRingNew(RingSlots)
    /\ ringIndex = 0
    /\ ringNumber = 0
    /\ inFlight = {}
    /\ pc = "images"
    /\ curSlot = 0
    /\ presented = <<>>
    /\ passes = <<>>
    /\ im = ImEmpty
    /\ swapKeys = [image |-> SwapRegistration.image, view |-> SwapRegistration.view]
    /\ aliasReg = AliasRegistryDefault
    /\ resolved = [images |-> <<>>, image_views |-> <<>>]
    /\ plan = <<>>
    /\ buildStatus = "none"
    /\ seen = {}
    /\ log = <<>>
    /\ imgState = <<>>
    /\ firstOld = <<>>
    /\ events = <<>>
    /\ calls = <<>>
    /\ lastResolve = <<>>
    /\ engine = EngineNew
    /\ surface = SurfaceNew

\* the variables the image manager's operations leave alone
notImageVars ==
    <<frames, ringIndex, ringNumber, inFlight, curSlot, presented, passes, swapKeys,
      aliasReg, resolved, plan, buildStatus, execVars, calls>>

\* the composite image keys a caller may hold: any image key as Global, any
\* logical key as PerFrame
IssuedKeys(m) ==
    {GlobalKey(k) : k \in 1..Len(m.images)} \cup {PerFrameKey(k) : k \in 1..Len(m.logical)}

\* ImageManager::create_image with either lifetime and any frame_count, then
\* create_image_view for the key it returned, as AliasRegistry::resolve
\* calls them
ImgCreateImage ==
    /\ pc = "images"
    /\ \E desc \in {ColorDesc, GlobalColorDesc} : \E n \in 1..MaxReplicas :
          /\ Len(im.images) + (IF desc.lifetime = "Global" THEN 1 ELSE n) <= MaxImages
          /\ LET img == ImCreateImage(im, CreateImageSpec(desc, ImageCtx), n)
             IN im' = ImCreateImageView(img.im, img.key, n).im
    /\ UNCHANGED <<engine, surface, pc, lastResolve, notImageVars>>

\* ImageManager::register_external_per_frame for n images and their views
ImgRegisterExternal ==
    /\ pc = "images"
    /\ \E n \in 1..MaxReplicas :
          /\ Len(im.images) + n <= MaxImages
          /\ im' = ImRegisterExternal(im, n).im
    /\ UNCHANGED <<engine, surface, pc, lastResolve, notImageVars>>

\* ImageManager::resolve_image with any issued key and any index; a failed
\* lookup panics
ImgResolveImage ==
    /\ pc = "images"
    /\ \E ckey \in IssuedKeys(im) : \E i \in 0..MaxReplicas :
       \E frameIndex \in {FrameIndexFrame(i), FrameIndexSwapchain(i)} :
          LET result == ImResolveImage(im, ckey, frameIndex)
          IN /\ lastResolve' = <<[key |-> ckey, index |-> frameIndex, result |-> result]>>
             /\ pc' = IF result = Panic THEN "panicked" ELSE pc
    /\ UNCHANGED <<engine, surface, im, notImageVars>>

\* ImageManager::cleanup_per_frames
ImgCleanupPerFrames ==
    /\ pc = "images"
    /\ im' = ImCleanupPerFrames(im)
    /\ UNCHANGED <<engine, surface, pc, lastResolve, notImageVars>>

NextImages ==
    \/ ImgCreateImage
    \/ ImgRegisterExternal
    \/ ImgResolveImage
    \/ ImgCleanupPerFrames

SpecImages == InitImages /\ [][NextImages]_vars

(***************************************************************************)
(* create_image on its own: calls that succeed, calls whose allocation     *)
(* fails at any replica, and cleanup_per_frames                            *)
(***************************************************************************)
\* ImageManager::create_image returning Ok; `calls` records every call
CrtCreateImage ==
    /\ pc = "images"
    /\ Len(calls) < MaxCalls
    /\ \E desc \in {ColorDesc, GlobalColorDesc} : \E n \in 1..MaxReplicas :
          /\ Len(im.images) + (IF desc.lifetime = "Global" THEN 1 ELSE n) <= MaxImages
          /\ im' = ImCreateImage(im, CreateImageSpec(desc, ImageCtx), n).im
          /\ calls' = Append(calls, [alias |-> "ForwardColor", desc |-> desc, ok |-> TRUE])
    /\ UNCHANGED <<engine, surface, pc, lastResolve, frames, ringIndex, ringNumber, inFlight,
                   curSlot, presented, passes, swapKeys, aliasReg, resolved, plan, buildStatus,
                   execVars>>

\* ImageManager::create_image returning Err: allocator.create_image fails for
\* replica failAt of the call
CrtCreateImageFail ==
    /\ pc = "images"
    /\ Len(calls) < MaxCalls
    /\ \E desc \in {ColorDesc, GlobalColorDesc} : \E n \in 1..MaxReplicas :
       \E failAt \in 0..(n - 1) :
          /\ Len(im.images) + (IF desc.lifetime = "Global" THEN 0 ELSE failAt) <= MaxImages
          /\ im' = ImCreateImageFail(im, CreateImageSpec(desc, ImageCtx), n, failAt)
          /\ calls' = Append(calls, [alias |-> "ForwardColor", desc |-> desc, ok |-> FALSE])
    /\ UNCHANGED <<engine, surface, pc, lastResolve, frames, ringIndex, ringNumber, inFlight,
                   curSlot, presented, passes, swapKeys, aliasReg, resolved, plan, buildStatus,
                   execVars>>

NextCreate ==
    \/ CrtCreateImage
    \/ CrtCreateImageFail
    \/ ImgCleanupPerFrames

SpecCreate == InitImages /\ [][NextCreate]_vars

(***************************************************************************)
(* RenderContext (render/context.rs): a ring of three frames, render_frame *)
(* called any number of times, and the context dropped between two calls   *)
(***************************************************************************)
\* RenderContext::new pushes three frames
ContextFrames == 3

InitContext ==
    /\ frames = FrameRingNew(ContextFrames)
    /\ ringIndex = 0
    /\ ringNumber = 0
    /\ inFlight = {}
    /\ pc = "context"
    /\ curSlot = 0
    /\ presented = <<>>
    /\ passes = <<>>
    /\ im = SwapRegistration.im
    /\ swapKeys = [image |-> SwapRegistration.image, view |-> SwapRegistration.view]
    /\ aliasReg = AliasRegistryDefault
    /\ resolved = [images |-> <<>>, image_views |-> <<>>]
    /\ plan = <<>>
    /\ buildStatus = "none"
    /\ seen = {}
    /\ log = <<>>
    /\ imgState = <<>>
    /\ firstOld = <<>>
    /\ events = <<>>
    /\ calls = <<>>
    /\ lastResolve = <<>>
    /\ engine = EngineNew
    /\ surface = SurfaceNew

\* the calls of render_frame, in order; each may return an error through `?`
RenderFrameSteps ==
    <<"acquire", "acquire_next_image", "record_commands", "reset_fences", "queue_submit",
      "present_frame">>

\* the position of a step in render_frame
StepIndex(step) == CHOOSE i \in 1..Len(RenderFrameSteps) : RenderFrameSteps[i] = step

\* RenderContext::render_frame, returning Ok (failAt = 0) or the error of
\* its step number failAt: acquire stamps the number before its wait and
\* advances the cursor after it, submit_frame resets the fence and submits,
\* present_frame presents
ContextRenderFrame ==
    /\ pc = "context"
    /\ ringNumber < MaxRenderFrames
    /\ \E failAt \in 0..Len(RenderFrameSteps) : \E idx \in 0..(NumSwapImages - 1) :
          LET done(step) == failAt = 0 \/ StepIndex(step) < failAt
              slot == ringIndex
          IN /\ done("acquire") => FrameWait(frames[slot + 1])
             /\ ringNumber' = ringNumber + 1
             /\ ringIndex' = IF done("acquire") THEN (ringIndex + 1) % Len(frames) ELSE ringIndex
             /\ curSlot' = IF done("acquire") THEN slot ELSE curSlot
             /\ frames' = [frames EXCEPT
                    ![slot + 1].number = ringNumber,
                    ![slot + 1].swapchain_image_index =
                        IF done("acquire_next_image") THEN idx ELSE @,
                    ![slot + 1].fence = IF done("reset_fences") THEN "unsignaled" ELSE @]
             /\ inFlight' = IF done("queue_submit")
                            THEN inFlight \cup {[slot |-> slot, number |-> ringNumber]}
                            ELSE inFlight
             /\ presented' = IF done("present_frame")
                             THEN Append(presented, [number |-> ringNumber, barriers |-> 0])
                             ELSE presented
    /\ UNCHANGED <<engine, surface, pc, buildVars, execVars, calls, lastResolve>>

\* Drop for RenderContext: frame_ring.destroy, then the swapchain
ContextDrop ==
    /\ pc = "context"
    /\ frames' = FrameRingDestroy(frames)
    /\ pc' = "dropped"
    /\ UNCHANGED <<engine, surface, ringIndex, ringNumber, inFlight, curSlot, presented, buildVars, execVars,
                   calls, lastResolve>>

NextContext ==
    \/ ContextRenderFrame
    \/ ContextDrop
    \/ GpuComplete

SpecContext == InitContext /\ [][NextContext]_vars

\* the same with a GPU that eventually completes every submission; the calls
\* of render_frame are the caller's and are not forced
SpecContextFair == SpecContext /\ WF_vars(GpuComplete)

(***************************************************************************)
(* render_thread with a presentation surface that may be resized between   *)
(* two frames, for the pass lists of one pass                              *)
(***************************************************************************)
InitResize ==
    /\ frames = FrameRingNew(RingSlots)
    /\ ringIndex = 0
    /\ ringNumber = 0
    /\ inFlight = {}
    /\ pc = "builder"
    /\ curSlot = 0
    /\ presented = <<>>
    /\ \E p \in PassUniverse : passes = <<p>>
    /\ im = SwapRegistration.im
    /\ swapKeys = [image |-> SwapRegistration.image, view |-> SwapRegistration.view]
    /\ aliasReg = AliasRegistryDefault
    /\ resolved = [images |-> <<>>, image_views |-> <<>>]
    /\ plan = <<>>
    /\ buildStatus = "none"
    /\ seen = {}
    /\ log = <<>>
    /\ imgState = <<>>
    /\ firstOld = <<>>
    /\ events = <<>>
    /\ calls = <<>>
    /\ lastResolve = <<>>
    /\ engine = EngineNew
    /\ surface = SurfaceNew

\* the window is resized while the render thread is between two frames
SurfaceResize ==
    /\ pc = "acquire"
    /\ surface.extent = "SwapchainExtent"
    /\ surface' = [surface EXCEPT !.extent = "ResizedExtent"]
    /\ UNCHANGED <<ringVars, buildVars, execVars, calls, lastResolve, engine>>

NextResize ==
    \/ BuildOk
    \/ FrameLoop
    \/ SurfaceResize

SpecResize == InitResize /\ [][NextResize]_vars

(***************************************************************************)
(* render_thread for pass lists whose second pass reads the alias the      *)
(* first one declares, indexed by frame slot or by presentation image      *)
(***************************************************************************)
IndexingPassLists ==
    { <<Pass("ForwardPass", <<ReqColorDeclare>>),
        Pass("CompositionPass", <<req, ReqSwapchainWrite>>)>> :
            req \in {ReqColorRead, ReqColorReadBySwapchain} }
    \cup { <<Pass("ForwardPass", <<ReqColorDeclare>>)>>,
            <<Pass("CompositionPass", <<ReqColorDeclareGlobal>>)>> }

InitIndexing ==
    /\ frames = FrameRingNew(RingSlots)
    /\ ringIndex = 0
    /\ ringNumber = 0
    /\ inFlight = {}
    /\ pc = "builder"
    /\ curSlot = 0
    /\ presented = <<>>
    /\ passes \in IndexingPassLists
    /\ im = SwapRegistration.im
    /\ swapKeys = [image |-> SwapRegistration.image, view |-> SwapRegistration.view]
    /\ aliasReg = AliasRegistryDefault
    /\ resolved = [images |-> <<>>, image_views |-> <<>>]
    /\ plan = <<>>
    /\ buildStatus = "none"
    /\ seen = {}
    /\ log = <<>>
    /\ imgState = <<>>
    /\ firstOld = <<>>
    /\ events = <<>>
    /\ calls = <<>>
    /\ lastResolve = <<>>
    /\ engine = EngineNew
    /\ surface = SurfaceNew

NextIndexing ==
    \/ BuildOk
    \/ FrameLoop

SpecIndexing == InitIndexing /\ [][NextIndexing]_vars

(***************************************************************************)
(* The Engine's threads: the owner running Engine::shutdown, the gameplay, *)
(* upload and render threads and the watchdog, interleaved step by step    *)
(***************************************************************************)
InitEngine ==
    /\ frames = FrameRingNew(RingSlots)
    /\ ringIndex = 0
    /\ ringNumber = 0
    /\ inFlight = {}
    /\ pc = "engine"
    /\ curSlot = 0
    /\ presented = <<>>
    /\ passes = <<>>
    /\ im = SwapRegistration.im
    /\ swapKeys = [image |-> SwapRegistration.image, view |-> SwapRegistration.view]
    /\ aliasReg = AliasRegistryDefault
    /\ resolved = [images |-> <<>>, image_views |-> <<>>]
    /\ plan = <<>>
    /\ buildStatus = "none"
    /\ seen = {}
    /\ log = <<>>
    /\ imgState = <<>>
    /\ firstOld = <<>>
    /\ events = <<>>
    /\ calls = <<>>
    /\ lastResolve = <<>>
    /\ engine = EngineNew
    /\ surface = SurfaceNew

\* the variables the Engine's threads leave alone at this level
notEngineVars == <<ringVars, buildVars, execVars, calls, lastResolve, surface>>

\* gameplay_thread, the loop condition: `while control.phase() == Running`
GameplayCheck ==
    /\ engine.gameplay = "check"
    /\ engine' = IF engine.phase = "Running"
                 THEN [engine EXCEPT
                         !.gameplay = "send",
                         !.asset = engine.next_asset,
                         !.next_asset = IF @ = MaxAssets THEN 1 ELSE @ + 1]
                 ELSE [engine EXCEPT !.gameplay = "exited"]
    /\ UNCHANGED notEngineVars

\* gameplay_thread, upload_tx.send: an error (the upload thread has dropped
\* upload_rx) breaks out of the loop
GameplaySend ==
    /\ engine.gameplay = "send"
    /\ engine' = IF engine.upload = "exited"
                 THEN [engine EXCEPT !.gameplay = "exited"]
                 ELSE [engine EXCEPT !.gameplay = "recv",
                                     !.upload_q = Append(@, engine.asset)]
    /\ UNCHANGED notEngineVars

\* gameplay_thread, complete_rx.recv: blocks until a completion arrives or
\* the upload thread has dropped complete_tx; then the sleep, and back to
\* the loop condition
GameplayRecv ==
    /\ engine.gameplay = "recv"
    /\ \/ /\ engine.complete_q # <<>>
          /\ engine' = [engine EXCEPT !.gameplay = "check",
                                      !.got = Head(engine.complete_q),
                                      !.complete_q = Tail(@)]
       \/ /\ engine.complete_q = <<>>
          /\ engine.upload = "exited"
          /\ engine' = [engine EXCEPT !.gameplay = "exited"]
    /\ UNCHANGED notEngineVars

\* upload_thread, the loop condition:
\* `while control.phase() != StopUpload || in_flight > 0`
UploadCheck ==
    /\ engine.upload = "check"
    /\ engine' = [engine EXCEPT
          !.upload = IF engine.phase # "StopUpload" \/ engine.in_flight > 0
                     THEN "body" ELSE "exited"]
    /\ UNCHANGED notEngineVars

\* an upload thread that sends the completion of a request twice
UploadBodyAnswerTwice ==
    /\ engine.upload = "body"
    /\ engine' = IF engine.phase = "Running" /\ engine.upload_q # <<>>
                 THEN [engine EXCEPT
                         !.upload = "check",
                         !.upload_q = Tail(@),
                         !.complete_q = @ \o <<Head(engine.upload_q), Head(engine.upload_q)>>,
                         !.in_flight = IF @ + 1 > 0 THEN @ + 1 - 1 ELSE 0]
                 ELSE [engine EXCEPT
                         !.upload = "check",
                         !.in_flight = IF @ > 0 THEN @ - 1 ELSE 0]
    /\ UNCHANGED notEngineVars

\* upload_thread, the loop body: a second read of the phase, try_recv, the
\* completion sent back with the asset id of the request, in_flight
\* incremented and decremented again
UploadBody ==
    /\ engine.upload = "body"
    /\ engine' = IF engine.phase = "Running" /\ engine.upload_q # <<>>
                 THEN [engine EXCEPT
                         !.upload = "check",
                         !.upload_q = Tail(@),
                         !.complete_q = IF engine.gameplay = "exited" THEN @
                                        ELSE Append(@, Head(engine.upload_q)),
                         !.in_flight = IF @ + 1 > 0 THEN @ + 1 - 1 ELSE 0]
                 ELSE [engine EXCEPT
                         !.upload = "check",
                         !.in_flight = IF @ > 0 THEN @ - 1 ELSE 0]
    /\ UNCHANGED notEngineVars

\* render_thread, one iteration of `for _ in 0..10` run to its end; the
\* EngineControl it was given is never read
RenderIteration ==
    /\ engine.render = "loop"
    /\ engine.iterations < FrameLoopCount
    /\ engine' = [engine EXCEPT !.iterations = @ + 1]
    /\ UNCHANGED notEngineVars

\* render_thread, an iteration leaving through `?`: the closure of
\* Engine::new sends the error to the watchdog and the thread exits
RenderIterationFail ==
    /\ engine.render = "loop"
    /\ engine.iterations < FrameLoopCount
    /\ engine' = [engine EXCEPT !.iterations = @ + 1,
                                !.render = "exited",
                                !.errors = Append(@, "render")]
    /\ UNCHANGED notEngineVars

\* render_thread after its ten iterations: the teardown, then the bail! that
\* ends the function with an error, sent to the watchdog like any other
RenderReturn ==
    /\ engine.render = "loop"
    /\ engine.iterations = FrameLoopCount
    /\ engine' = [engine EXCEPT !.render = "exited", !.errors = Append(@, "render")]
    /\ UNCHANGED notEngineVars

\* the watchdog thread: `for (name, e) in error_rx { log::error!(..) }`
WatchdogLog ==
    /\ engine.errors # <<>>
    /\ engine' = [engine EXCEPT !.errors = Tail(@), !.logged = Append(@, Head(engine.errors))]
    /\ UNCHANGED notEngineVars

\* App::window_event(CloseRequested): Engine::shutdown starts,
\* set_phase(StopGameplay), and the join of the gameplay thread begins
ShutdownStopGameplay ==
    /\ engine.main = "event_loop"
    /\ engine' = [engine EXCEPT !.phase = "StopGameplay", !.main = "join_gameplay"]
    /\ UNCHANGED notEngineVars

\* a shutdown that sets StopUpload without joining the gameplay thread first
ShutdownStopUploadNoJoin ==
    /\ engine.main = "join_gameplay"
    /\ engine' = [engine EXCEPT !.phase = "StopUpload", !.main = "join_upload"]
    /\ UNCHANGED notEngineVars

\* Engine::shutdown: the gameplay join returns, set_phase(StopUpload), and
\* the join of the upload thread begins
ShutdownStopUpload ==
    /\ engine.main = "join_gameplay"
    /\ engine.gameplay = "exited"
    /\ engine' = [engine EXCEPT !.phase = "StopUpload", !.main = "join_upload"]
    /\ UNCHANGED notEngineVars

\* Engine::shutdown: the upload join returns, set_phase(StopRender), and the
\* join of the render thread begins
ShutdownStopRender ==
    /\ engine.main = "join_upload"
    /\ engine.upload = "exited"
    /\ engine' = [engine EXCEPT !.phase = "StopRender", !.main = "join_render"]
    /\ UNCHANGED notEngineVars

\* Engine::shutdown: the render join returns and shutdown returns Ok
ShutdownReturn ==
    /\ engine.main = "join_render"
    /\ engine.render = "exited"
    /\ engine' = [engine EXCEPT !.main = "returned"]
    /\ UNCHANGED notEngineVars

GameplayThread == GameplayCheck \/ GameplaySend \/ GameplayRecv

UploadThread == UploadCheck \/ UploadBody

RenderThread == RenderIteration \/ RenderIterationFail \/ RenderReturn

ShutdownJoins == ShutdownStopUpload \/ ShutdownStopRender \/ ShutdownReturn

NextEngine ==
    \/ GameplayThread
    \/ UploadThread
    \/ RenderThread
    \/ WatchdogLog
    \/ ShutdownStopGameplay
    \/ ShutdownJoins

SpecEngine == InitEngine /\ [][NextEngine]_vars

\* the same with every thread scheduled fairly; the close request that
\* starts Engine::shutdown comes from the user and is not forced
SpecEngineFair ==
    /\ SpecEngine
    /\ WF_vars(GameplayThread)
    /\ WF_vars(UploadThread)
    /\ WF_vars(RenderThread)
    /\ WF_vars(WatchdogLog)
    /\ WF_vars(ShutdownJoins)

(***************************************************************************)
(* Claims                                                                  *)
(***************************************************************************)

\* C1: the slot acquire returned has no submitted work still in flight (its
\* fence has signaled), no slot has two submissions in flight, and so at most
\* N = Len(frames) frames are submitted but not completed
C1_AcquireAfterFence ==
    /\ Cardinality(inFlight) <= Len(frames)
    /\ \A a, b \in inFlight : a.slot = b.slot => a = b
    /\ pc \in {"acquire_image", "execute", "submit"} =>
          \A s \in inFlight : s.slot # curSlot

\* C1 witness: every slot of a ring of at least two slots is in flight, one
\* of them resubmitted after an earlier use
C1_Witness ==
    /\ Len(frames) >= 2
    /\ Cardinality(inFlight) = Len(frames)
    /\ ringNumber > Len(frames)

(***************************************************************************)
(* Helpers of the claims about the compiled plan                           *)
(***************************************************************************)
\* the steps of the plan loops over the current pass list
Steps == PlanSteps(passes, 1)

\* the position, under its pass id, of the descriptor pushed at step k
StoredAt(steps, k) == Cardinality({i \in 1..k : steps[i].id = steps[k].id})

\* the descriptor from_passes pushed at step k, as found in the plan
StoredDesc(steps, k) == plan[steps[k].id][StoredAt(steps, k)]

\* the earlier steps on the alias of step k
EarlierOn(steps, k) == {j \in 1..(k - 1) : steps[j].pre.alias = steps[k].pre.alias}

\* the number of requirements over all passes
TotalRequirements == Len(AllRequirements(passes, 1))

\* the descriptors stored under the id of pass i are those of pass i's
\* requirements, one each and in order
StoresOwnRequirements(i) ==
    LET descs == PlanGet(plan, passes[i])
        reqs == passes[i].reqs
    IN /\ Len(descs) = Len(reqs)
       /\ \A j \in 1..Len(reqs) :
             /\ descs[j].alias = reqs[j].alias
             /\ descs[j].new_state = reqs[j].state
             /\ descs[j].indexing = reqs[j].indexing

\* C2: a transition emitted for an image that an earlier pass of the same
\* frame already transitioned names, as old_state, the state that image was
\* last moved to
C2_OldStateIsPriorState ==
    \A k \in 1..Len(log) :
        (\E j \in 1..(k - 1) : log[j].image = log[k].image /\ log[j].pass < log[k].pass)
            => log[k].prior = Some(log[k].old)

\* C3: the first transition ever emitted for an instance (composite key and
\* frame-slot or presentation-image index) has old_state UNDEFINED, and an
\* instance is marked as used only by a transition emitted for that instance
C3_FirstUseIsUndefined ==
    /\ \A key \in DOMAIN firstOld : firstOld[key] = UNDEFINED
    /\ seen = DOMAIN firstOld

\* C3 witness: both per-frame replicas of one alias and two presentation
\* images have had their first transition, under a plan whose recorded old
\* states are not UNDEFINED
C3_Witness ==
    /\ \E a, b \in DOMAIN firstOld :
          /\ a.ckey = b.ckey /\ a.inst.kind = "Frame" /\ b.inst.kind = "Frame"
          /\ a.inst.i # b.inst.i
    /\ \E a, b \in DOMAIN firstOld :
          /\ a.ckey = b.ckey /\ a.inst.kind = "Swapchain" /\ b.inst.kind = "Swapchain"
          /\ a.inst.i # b.inst.i
    /\ \A id \in DOMAIN plan : \A j \in 1..Len(plan[id]) : plan[id][j].old_state # UNDEFINED

\* C4: in frames 2 and 4 (frame_count 2: the replica of frame 0) the first
\* transition emitted for the per-frame alias ForwardColor has, as old_state,
\* the state the replica was left in by the previous frame that used it, and
\* not an undefined state
C4_ReuseStartsFromPriorState ==
    (pc = "submit" /\ frames[curSlot + 1].number \in {2, 4}) =>
        \A k \in 1..Len(log) :
            (/\ log[k].alias = "ForwardColor"
             /\ log[k].key.ckey.kind = "PerFrame"
             /\ \A j \in 1..(k - 1) : log[j].alias # "ForwardColor")
                => /\ log[k].prior = Some(log[k].old)
                   /\ log[k].old.layout # "UNDEFINED"

\* C5: the transition stored for a requirement on an alias that an earlier
\* requirement in plan order already used has, as old_state, the desired
\* state of the most recent such requirement, and its own desired state as
\* new_state
C5_OldStateIsPreviousDesired ==
    buildStatus = "ok" =>
        LET steps == Steps
        IN \A k \in 1..Len(steps) :
              EarlierOn(steps, k) # {} =>
                  LET j == CHOOSE x \in EarlierOn(steps, k) :
                               \A y \in EarlierOn(steps, k) : y <= x
                  IN /\ StoredDesc(steps, k).old_state = steps[j].pre.state
                     /\ StoredDesc(steps, k).new_state = steps[k].pre.state

\* C5 witness: a built pass list [A, B] whose passes require the same alias
\* with different states S1 then S2, neither being the alias's baseline
C5_Witness ==
    /\ buildStatus = "ok"
    /\ Len(passes) = 2
    /\ \E k \in 1..Len(Steps) : \E j \in EarlierOn(Steps, k) :
          /\ Steps[j].pass = 1 /\ Steps[k].pass = 2
          /\ Steps[j].pre.state # Steps[k].pre.state
          /\ Steps[j].pre.state # UndefinedBaseline

\* C6: after compile the plan stores, under the id of each pass, exactly the
\* transitions of that pass's requirements, in order, and the plan holds as
\* many transitions as there are requirements
C6_OneTransitionPerRequirement ==
    buildStatus = "ok" =>
        /\ \A i \in 1..Len(passes) : StoresOwnRequirements(i)
        /\ \A id \in DOMAIN plan : \E i \in 1..Len(passes) : PassId(passes[i]) = id

\* C7: when k frames have run without failure there have been exactly k
\* presentations, of frames 0..k-1 in that order, each preceded by exactly
\* one barrier per declared requirement
C7_OnePresentationPerFrame ==
    (buildStatus = "ok" /\ pc \in {"acquire", "done"}) =>
        /\ Len(presented) = ringNumber
        /\ \A k \in 1..Len(presented) :
              /\ presented[k].number = k - 1
              /\ presented[k].barriers = TotalRequirements

\* C8: in the compiled plan the first transition on the presentation alias
\* starts from the presentation-ready baseline and the first transition on
\* any other known alias starts from the undefined baseline
C8_FirstTransitionFromBaseline ==
    buildStatus = "ok" =>
        LET steps == Steps
        IN \A k \in 1..Len(steps) :
              (EarlierOn(steps, k) = {} /\ steps[k].pre.alias \in DOMAIN resolved.images) =>
                  StoredDesc(steps, k).old_state =
                      IF steps[k].pre.alias = "SwapchainImage"
                      THEN MkState("PRESENT_SRC_KHR", "BOTTOM_OF_PIPE", "NONE")
                      ELSE MkState("UNDEFINED", "NONE", "NONE")

\* C8 witness: a built plan with a first transition on the presentation alias
\* and a first transition on another known alias
C8_Witness ==
    /\ buildStatus = "ok"
    /\ \E k \in 1..Len(Steps) :
          EarlierOn(Steps, k) = {} /\ Steps[k].pre.alias = "SwapchainImage"
    /\ \E k \in 1..Len(Steps) :
          /\ EarlierOn(Steps, k) = {} /\ Steps[k].pre.alias # "SwapchainImage"
          /\ Steps[k].pre.alias \in DOMAIN resolved.images

\* C9: a build whose passes require an alias that no pass declared and that
\* is not registered as external does not succeed
C9_UnknownAliasFailsBuild ==
    (\E i \in 1..Len(passes) : \E j \in 1..Len(passes[i].reqs) :
        /\ passes[i].reqs[j].alias \notin DOMAIN aliasReg.declared
        /\ passes[i].reqs[j].alias \notin DOMAIN aliasReg.externals)
    => buildStatus # "ok"

\* the calls made so far for `alias`, as positions in calls
CallsOn(alias) == {k \in 1..Len(calls) : calls[k].alias = alias}

\* the first call made for `alias`
FirstCallOn(alias) == CHOOSE k \in CallsOn(alias) : \A j \in CallsOn(alias) : k <= j

\* the images the manager created itself
OwnedImages == {k \in 1..Len(im.images) : im.images[k].owned}

\* the number of images resolve creates for the declared aliases in S: one
\* for Global lifetime, frame_count for PerFrame
RECURSIVE ExpectedImages(_)
ExpectedImages(S) ==
    IF S = {} THEN 0
    ELSE LET a == CHOOSE x \in S : TRUE
         IN (IF aliasReg.declared[a].lifetime = "Global" THEN 1 ELSE FrameCount)
            + ExpectedImages(S \ {a})

\* C10: a declare_image call repeating the description first declared for
\* its alias succeeds, however often; the registry holds each declared alias
\* with its first description; and resolve creates the images of each
\* declared alias once
C10_RepeatedDeclarationIdempotent ==
    /\ \A k \in 1..Len(calls) :
          calls[k].desc = calls[FirstCallOn(calls[k].alias)].desc => calls[k].ok
    /\ DOMAIN aliasReg.declared = {calls[k].alias : k \in 1..Len(calls)}
    /\ \A a \in DOMAIN aliasReg.declared : aliasReg.declared[a] = calls[FirstCallOn(a)].desc
    /\ pc = "resolved" =>
          /\ DOMAIN aliasReg.declared \subseteq DOMAIN resolved.images
          /\ Cardinality(OwnedImages) = ExpectedImages(DOMAIN aliasReg.declared)
          /\ Len(im.logical) =
                Len(SwapRegistration.im.logical)
                + Cardinality({a \in DOMAIN aliasReg.declared :
                                  aliasReg.declared[a].lifetime = "PerFrame"})

\* C10 witness: one alias declared MaxCalls times with the same per-frame
\* description, every call succeeding, and then resolved
C10_Witness ==
    /\ pc = "resolved"
    /\ Len(calls) = MaxCalls
    /\ \A k \in 1..Len(calls) :
          calls[k].ok /\ calls[k].alias = "ForwardColor" /\ calls[k].desc = ColorDesc
    /\ Cardinality(OwnedImages) = FrameCount

\* the requirements, in registration order, that declare `alias`
DeclarationsOf(alias) ==
    LET reqs == AllRequirements(passes, 1)
    IN {k \in 1..Len(reqs) : reqs[k].creation.kind = "Declare" /\ reqs[k].alias = alias}

\* the description of the first declaration of `alias` among the passes
FirstDeclared(alias) ==
    LET reqs == AllRequirements(passes, 1)
        k == CHOOSE x \in DeclarationsOf(alias) : \A y \in DeclarationsOf(alias) : x <= y
    IN reqs[k].creation.desc

\* two passes declare one alias with differing descriptions
HasConflict ==
    LET reqs == AllRequirements(passes, 1)
    IN \E a \in ImageAlias : \E k \in DeclarationsOf(a) :
          reqs[k].creation.desc # FirstDeclared(a)

\* C11: a pass list declaring an alias with two differing descriptions never
\* builds: build fails with ConflictingDeclaration, the registry keeps the
\* first description of every alias, and no image, view, resolved registry or
\* plan has been created
C11_ConflictFailsBeforeCreation ==
    /\ buildStatus = "ok" => ~HasConflict
    /\ (pc # "builder" /\ HasConflict) =>
          /\ buildStatus = "ConflictingDeclaration"
          /\ pc = "failed"
    /\ buildStatus = "ConflictingDeclaration" =>
          /\ \A a \in DOMAIN aliasReg.declared : aliasReg.declared[a] = FirstDeclared(a)
          /\ im = SwapRegistration.im
          /\ resolved = [images |-> <<>>, image_views |-> <<>>]
          /\ plan = <<>>

\* C11 witness: a build that failed on a second, differing description of
\* ForwardColor, the first one being per-frame
C11_Witness ==
    /\ buildStatus = "ConflictingDeclaration"
    /\ HasConflict
    /\ "ForwardColor" \in DOMAIN aliasReg.declared
    /\ aliasReg.declared["ForwardColor"] = ColorDesc

\* C12: a resolve of a PerFrame key whose vector holds N replicas with index
\* i returns the i-th replica when i < N and panics when i >= N
C12_PerFrameResolveInRange ==
    lastResolve # <<>> =>
        LET r == lastResolve[1]
            replicas == im.logical[r.key.key]
        IN (r.key.kind = "PerFrame" /\ Len(replicas) > 0) =>
              /\ Raw(r.index) < Len(replicas) =>
                    r.result = Found(replicas[1] + Raw(r.index))
              /\ Raw(r.index) >= Len(replicas) => r.result = Panic

\* C12 witness: a key created with two replicas was resolved with index 2,
\* and the lookup panicked
C12_Witness ==
    /\ lastResolve # <<>>
    /\ lastResolve[1].key.kind = "PerFrame"
    /\ Len(im.logical[lastResolve[1].key.key]) = 2
    /\ im.images[im.logical[lastResolve[1].key.key][1]].owned
    /\ Raw(lastResolve[1].index) = 2
    /\ pc = "panicked"

\* the logical keys whose vector was filled by create_image
CreatedLogicalKeys ==
    {k \in 1..Len(im.logical) : \E i \in 1..Len(im.logical[k]) : im.images[im.logical[k][i]].owned}

\* C13: after resolve the resolved registry has one image key and one view
\* key for every declared alias and every external alias, and for no other
\* alias, and every per-frame key filled by create_image holds exactly
\* frame_count images
C13_OneKeyPerAlias ==
    pc = "resolved" =>
        /\ DOMAIN resolved.images = DOMAIN aliasReg.declared \cup DOMAIN aliasReg.externals
        /\ DOMAIN resolved.image_views = DOMAIN resolved.images
        /\ \A a \in DOMAIN resolved.images :
              /\ resolved.images[a].kind \in {"Global", "PerFrame"}
              /\ resolved.image_views[a].kind = resolved.images[a].kind
        /\ \A k \in CreatedLogicalKeys : Len(im.logical[k]) = ImageCtx.frame_count

\* C13 witness: a resolved registry holding the external alias, a declared
\* per-frame alias and a declared global alias
C13_Witness ==
    /\ pc = "resolved"
    /\ "SwapchainImage" \in DOMAIN aliasReg.externals
    /\ "SwapchainImage" \notin DOMAIN aliasReg.declared
    /\ \E a, b \in DOMAIN aliasReg.declared :
          /\ aliasReg.declared[a].lifetime = "PerFrame"
          /\ aliasReg.declared[b].lifetime = "Global"
    /\ CreatedLogicalKeys # {}

\* the aliases the declared size of `a` leads to in at most n steps of
\* "sized relative to"
RECURSIVE SizeBases(_, _)
SizeBases(a, n) ==
    IF n = 0 \/ a \notin DOMAIN aliasReg.declared \/ aliasReg.declared[a].size.kind # "Relative"
    THEN {}
    ELSE {aliasReg.declared[a].size.alias} \cup SizeBases(aliasReg.declared[a].size.alias, n - 1)

\* the alias-relative size dependencies of the declared descriptions contain a cycle
HasSizeCycle ==
    \E a \in DOMAIN aliasReg.declared : a \in SizeBases(a, Cardinality(ImageAlias))

\* the first physical image created for a composite image key
FirstImage(key) == IF key.kind = "Global" THEN key.key ELSE im.logical[key.key][1]

\* C14: with acyclic size dependencies, an alias sized relative to another
\* declared alias is resolved after that alias (its images are created later)
\* and has the extent of that alias's resolved images (scale 1)
C14_RelativeSizeFollowsBase ==
    (pc = "resolved" /\ ~HasSizeCycle) =>
        \A a \in DOMAIN aliasReg.declared :
            LET size == aliasReg.declared[a].size
            IN (size.kind = "Relative" /\ size.alias \in DOMAIN aliasReg.declared) =>
                  /\ FirstImage(resolved.images[size.alias]) < FirstImage(resolved.images[a])
                  /\ im.images[FirstImage(resolved.images[a])].extent
                        = im.images[FirstImage(resolved.images[size.alias])].extent

\* C15: resolve does not produce a resolved registry when the size
\* dependencies of the declared descriptions contain a cycle
C15_SizeCycleFailsResolve == pc = "resolved" => ~HasSizeCycle

\* one step seen from the entries of one arena: destruction counts never
\* decrease and never pass one, and a step that empties the logical map
\* destroys every owned entry the map held, none of them destroyed before
DestroyedOnceIn(entries, entriesAfter, logical, logicalAfter) ==
    \A k \in 1..Len(entries) :
        /\ entriesAfter[k].destroyed >= entries[k].destroyed
        /\ entriesAfter[k].destroyed <= 1
        /\ (k \in KeysOf(logical) /\ KeysOf(logicalAfter) = {} /\ entries[k].owned) =>
              /\ entries[k].destroyed = 0
              /\ entriesAfter[k].destroyed = 1
              /\ ~entriesAfter[k].alive

C17_ExternalsSurviveCleanup ==
    /\ \A k \in 1..Len(im.images) :
          ~im.images[k].owned =>
              /\ im.images[k].alive
              /\ im.images[k].destroyed = 0
              /\ \E l \in 1..Len(im.logical) : \E i \in 1..Len(im.logical[l]) :
                    /\ im.logical[l][i] = k
                    /\ ImResolveImage(im, PerFrameKey(l), FrameIndexFrame(i - 1)) = Found(k)
    /\ \A k \in 1..Len(im.views) :
          ~im.views[k].owned => im.views[k].alive /\ im.views[k].destroyed = 0

\* C18: once the render thread has torn down, every image and view the
\* image manager owns, of either lifetime, has been destroyed, and the
\* external ones have been left to their owner
C18_AllOwnedDestroyedAtShutdown ==
    pc = "done" =>
        /\ \A k \in 1..Len(im.images) :
              im.images[k].destroyed = (IF im.images[k].owned THEN 1 ELSE 0)
        /\ \A k \in 1..Len(im.views) :
              im.views[k].destroyed = (IF im.views[k].owned THEN 1 ELSE 0)

\* the state of ring slot s as the loop of render_thread defines it: the slot
\* acquire returned is Acquired until FrameGraph::execute has closed its
\* command buffers, Recording (recorded, not yet submitted) until submit_frame
\* has run, and Submitted from then until acquire returns it again; a slot
\* acquire has never returned is Idle
SlotStateAt(s, at, cur, number) ==
    CASE s = cur /\ at \in {"acquire_image", "execute"} -> "Acquired"
      [] s = cur /\ at = "submit" -> "Recording"
      [] OTHER -> IF number > s THEN "Submitted" ELSE "Idle"

RunningAt(at) == at \in {"acquire", "acquire_image", "execute", "submit", "present"}

C20_DestroyWaitsForWork == frames = <<>> => inFlight = {}

IsPassEvent(e) == e.kind = "pass"
IsBarrierEvent(e) == e.kind = "barrier"

\* the passes whose work a sequence of events holds, in order
PassesIn(ev) == [k \in 1..Len(SelectSeq(ev, IsPassEvent)) |-> SelectSeq(ev, IsPassEvent)[k].pass]

\* the kinds of the events of a sequence
KindsIn(ev) == {ev[k].kind : k \in 1..Len(ev)}

\* C21: when execute fails at pass i, the passes before i have run and no
\* pass from i on has, nothing is submitted or presented, no fence is reset,
\* and the error ends the render thread: from then on nothing is acquired,
\* recorded, submitted or presented
C21_FailedPassAbortsFrame ==
    [][/\ (pc = "execute" /\ pc' = "failed") =>
             /\ frames' = frames
             /\ inFlight' = inFlight
             /\ presented' = presented
             /\ \E i \in 1..Len(passes) : PassesIn(events') = [k \in 1..(i - 1) |-> k]
             /\ KindsIn(events') \subseteq {"barrier", "pass"}
       /\ pc = "failed" =>
             /\ pc' = "failed"
             /\ events' = events
             /\ presented' = presented
             /\ ringNumber' = ringNumber
             /\ \A f \in inFlight' : f \in inFlight
             /\ \A s \in 1..Len(frames) :
                   frames'[s].fence = "unsignaled" => frames[s].fence = "unsignaled"]_vars

\* C21 witness: of two passes the first failed after its barriers were
\* recorded; neither pass has run and the frame was not submitted
C21_Witness ==
    /\ pc = "failed"
    /\ Len(passes) = 2
    /\ events # <<>>
    /\ KindsIn(events) = {"barrier"}
    /\ \A k \in 1..Len(events) : events[k].pass = 1
    /\ Len(events) = Len(PlanGet(plan, passes[1]))
    /\ frames[curSlot + 1].fence = "signaled"

\* C22: once the render thread has ended with an error, the shutdown phase
\* eventually leaves Running and the gameplay and upload threads stop
C22_RenderFailureSignalsShutdown ==
    (engine.render = "exited" /\ (engine.errors # <<>> \/ engine.logged # <<>>))
        ~> (/\ engine.phase # "Running"
            /\ engine.gameplay = "exited"
            /\ engine.upload = "exited")

\* C28: once Engine::shutdown has been called it eventually returns, with the
\* gameplay, upload and render threads all exited
C28_ShutdownReturns ==
    (engine.main # "event_loop")
        ~> (/\ engine.main = "returned"
            /\ engine.gameplay = "exited"
            /\ engine.upload = "exited"
            /\ engine.render = "exited")

\* C23: once the phase is StopRender the render loop starts no further
\* iteration (no acquire follows an iteration that could observe the signal)
C23_NoFrameAfterStopRender ==
    [][engine.phase = "StopRender" => engine'.iterations = engine.iterations]_vars

\* C24: the frame ring and the image manager's resources are released only
\* by the teardown at the end of render_thread, and when they have been
\* released no submitted frame is still in flight
C24_ReleaseAfterIdle ==
    (\/ frames = <<>>
     \/ \E k \in 1..Len(im.images) : im.images[k].destroyed > 0 \/ ~im.images[k].alive
     \/ \E k \in 1..Len(im.views) : im.views[k].destroyed > 0 \/ ~im.views[k].alive)
        => (pc = "done" /\ inFlight = {})

\* C24 witness: the render thread has torn down after its ten frames: the
\* ring is cleared and the per-frame images of a declared alias are destroyed
C24_Witness ==
    /\ pc = "done"
    /\ Len(presented) = FrameLoopCount
    /\ frames = <<>>
    /\ inFlight = {}
    /\ \E k \in 1..Len(im.images) : im.images[k].owned /\ im.images[k].destroyed = 1

\* C25: a frame executes only against images resolved for the surface's
\* current extent: after a resize the per-frame images are destroyed and the
\* registry is rebuilt before the next frame executes
C25_ResizeRebuilds ==
    [][(pc = "execute" /\ pc' = "submit") =>
          \A k \in 1..Len(im.images) :
              im.images[k].owned => im.images[k].extent = surface.extent]_vars

\* the events of a frame that runs passes[i..] in builder order, the barriers
\* of each pass's own requirements recorded just before that pass's work
RECURSIVE ExpectedEvents(_)
ExpectedEvents(i) ==
    IF i > Len(passes) THEN <<>>
    ELSE [j \in 1..Len(passes[i].reqs) |->
             [kind |-> "barrier", pass |-> i, alias |-> passes[i].reqs[j].alias]]
         \o <<[kind |-> "pass", pass |-> i, alias |-> "none"]>>
         \o ExpectedEvents(i + 1)

\* C26: a frame that has executed ran the passes in the order they were
\* added, and recorded the barriers of pass i, one per requirement of pass i,
\* after the work of pass i-1 and before the work of pass i
C26_PassOrderAndBarrierPlacement ==
    pc = "submit" => events = ExpectedEvents(1)

\* the positions of the events of one kind
PositionsOf(kind) == {k \in 1..Len(events) : events[k].kind = kind}

\* C27: in a frame that has been submitted, the transition of the acquired
\* presentation image to PRESENT was recorded once, after the work of every
\* pass and before queue_submit; the image is then in the PRESENT state; and
\* queue_present comes only after queue_submit
C27_PresentTransitionLast ==
    /\ pc = "present" =>
          /\ PassesIn(events) = [i \in 1..Len(passes) |-> i]
          /\ Cardinality(PositionsOf("transition_present")) = 1
          /\ Cardinality(PositionsOf("queue_submit")) = 1
          /\ PositionsOf("queue_present") = {}
          /\ Get(imgState, SwapchainImageOf(frames[curSlot + 1])) = Some(PRESENT)
    /\ \A t \in PositionsOf("transition_present") :
          /\ \A w \in PositionsOf("pass") \cup PositionsOf("barrier") : w < t
          /\ \A q \in PositionsOf("queue_submit") : t < q
    /\ \A q \in PositionsOf("queue_present") :
          /\ q = Len(events)
          /\ \E u \in PositionsOf("queue_submit") : u < q
          /\ \E t \in PositionsOf("transition_present") : t < q

\* C27 witness: a frame of two passes has been presented: both passes'
\* work, the transition, the submission and the presentation are on record
C27_Witness ==
    /\ pc = "acquire"
    /\ Len(passes) = 2
    /\ Len(presented) = 1
    /\ PassesIn(events) = <<1, 2>>
    /\ PositionsOf("transition_present") # {}
    /\ PositionsOf("queue_present") = {Len(events)}

\* C30: two transitions recorded for the same physical image are tracked
\* under the same first-use key (composite key and instance), and at most one
\* of the transitions recorded for an image in a frame is treated as its first
\* use, also when the image is reached once by frame slot and once by
\* presentation-image index
C30_SameImageSameFirstUseIdentity ==
    \A j, k \in 1..Len(log) :
        (j < k /\ log[j].image = log[k].image) =>
            /\ log[j].key = log[k].key
            /\ ~(log[j].first /\ log[k].first)

IssuedBeforeCleanup(m, ckey) ==
    IF ckey.kind = "PerFrame" THEN m.logical[ckey.key] = <<>>
    ELSE \E j \in (ckey.key + 1)..Len(m.images) : ~m.images[j].alive

HandlesOf(logical, ckey) ==
    IF ckey.kind = "PerFrame" THEN logical[ckey.key] ELSE <<ckey.key>>

\* the arena keys of every element of a vector of keys, in order
RECURSIVE HandlesOfAll(_, _, _)
HandlesOfAll(logical, keys, k) ==
    IF k > Len(keys) THEN <<>>
    ELSE HandlesOf(logical, keys[k]) \o HandlesOfAll(logical, keys, k + 1)

\* C32: after resolve, the key recorded for an external alias carries, index
\* by index, the images the alias was registered with, the view key carries
\* the views it was registered with, and the i-th view is the view of the
\* i-th image
C32_ExternalHandlesCopiedThrough ==
    pc = "resolved" =>
        \A alias \in DOMAIN aliasReg.externals :
            LET ext == aliasReg.externals[alias]
                regImages == HandlesOfAll(im.logical, [i \in 1..Len(ext) |-> ext[i].image], 1)
                regViews == HandlesOfAll(im.logicalViews, [i \in 1..Len(ext) |-> ext[i].view], 1)
                gotImages == HandlesOf(im.logical, resolved.images[alias])
                gotViews == HandlesOf(im.logicalViews, resolved.image_views[alias])
            IN /\ gotImages = regImages
               /\ gotViews = regViews
               /\ \A i \in 1..Len(gotViews) : im.views[gotViews[i]].image = gotImages[i]

\* C33: an acquire that succeeds as the k-th (k = 0, 1, ...; in render_thread
\* k is the ring's number, no acquire following a failed one) returns slot
\* k mod N stamped with frame number k and moves the cursor on by one slot;
\* an acquire whose fence wait fails changes neither the cursor nor the
\* frame number
C33_RoundRobinAcquire ==
    [][ /\ (pc = "acquire" /\ pc' = "acquire_image") =>
              /\ curSlot' = ringNumber % Len(frames)
              /\ frames'[curSlot' + 1].number = ringNumber
              /\ ringIndex' = (ringIndex + 1) % Len(frames)
              /\ ringNumber' = ringNumber + 1
        /\ (pc = "acquire" /\ pc' = "failed") =>
              /\ ringIndex' = ringIndex
              /\ ringNumber' = ringNumber
      ]_vars

\* C34: with a GPU that eventually completes every submission, an acquire
\* waiting on a slot eventually returns: every slot's fence starts signaled,
\* and a fence that is unsignaled is eventually signaled again (or the ring
\* is destroyed), because it is unsignaled only while work submitted with it
\* is in flight
C34_AcquireEventuallyReturns ==
    \A s \in 1..ContextFrames :
        (s \in DOMAIN frames /\ frames[s].fence = "unsignaled")
            ~> (s \notin DOMAIN frames \/ frames[s].fence = "signaled")

\* C35: a submit_frame that returns an error leaves the fence of the slot as
\* it was before the call, signaled
C35_FailedSubmitKeepsFence ==
    [][(pc = "submit" /\ pc' = "failed") =>
          /\ frames'[curSlot + 1].fence = frames[curSlot + 1].fence
          /\ frames'[curSlot + 1].fence = "signaled"]_vars

C37_PresentTransitionFromWrittenState ==
    [][(pc = "submit" /\ pc' = "present") =>
          Get(imgState, SwapchainImageOf(frames[curSlot + 1])) = Some(COLOR_ATTACHMENT_WRITE)]_vars

\* the upload requests sent and not yet answered to the gameplay thread
Outstanding == Len(engine.upload_q) + Len(engine.complete_q)

\* C38: while the phase is Running the gameplay thread has at most one upload
\* request outstanding, and none unless it is waiting for the completion;
\* the request or completion in the channels carries the asset id the
\* gameplay thread is waiting for, so each accepted request is answered once
\* with its own id; and the completion the gameplay thread receives is the
\* one of the request it sent last, so completions arrive in request order
C38_OneRequestOneCompletion ==
    [][ /\ engine'.phase = "Running" =>
              /\ Outstanding' <= 1
              /\ (Outstanding' = 1 => engine'.gameplay = "recv")
              /\ \A i \in 1..Len(engine'.upload_q) : engine'.upload_q[i] = engine'.asset
              /\ \A i \in 1..Len(engine'.complete_q) : engine'.complete_q[i] = engine'.asset
        /\ (engine.phase = "Running" /\ Len(engine'.upload_q) < Len(engine.upload_q)) =>
              engine'.complete_q = Append(engine.complete_q, Head(engine.upload_q))
        /\ (engine.phase = "Running" /\ engine'.got # engine.got) =>
              engine'.got = engine.asset
      ]_vars

\* C38 witness: with the engine running, the gameplay thread has received
\* the completions of its first requests and is waiting for the completion,
\* already sent, of a later one
C38_Witness ==
    /\ engine.phase = "Running"
    /\ engine.gameplay = "recv"
    /\ engine.got = 2
    /\ engine.asset = 3
    /\ engine.complete_q = <<3>>

\* C39: a create_image call that returns an error leaves the image manager
\* as it was: no replica created earlier in the call stays in the arena,
\* and every owned image the manager holds after the call is one it held
\* before
C39_FailedCreateLeavesRegistryUnchanged ==
    [][(Len(calls') > Len(calls) /\ ~calls'[Len(calls')].ok) => im' = im]_vars

\* the arena entries the keys of a resolved map reach
ReferencedBy(keys, logical) ==
    UNION {{HandlesOf(logical, keys[a])[i] : i \in 1..Len(HandlesOf(logical, keys[a]))} :
              a \in DOMAIN keys}

\* C40: after resolve, every image and every view the resolve created (the
\* owned entries of the manager, which held external entries only before) is
\* reached by the key the ResolvedRegistry records for an alias, also when
\* an alias is both declared and registered as external
C40_CreatedResourcesReferenced ==
    pc = "resolved" =>
        /\ OwnedImages \subseteq ReferencedBy(resolved.images, im.logical)
        /\ {k \in 1..Len(im.views) : im.views[k].owned}
              \subseteq ReferencedBy(resolved.image_views, im.logicalViews)

====
